---- MODULE Spec2Model ----
(***************************************************************************)
(* A model of the call-analytics engine of sarvam-qa-dashboard             *)
(* (SarvamTest/sarvam_engine.py): split_audio, _parse_transcriptions and   *)
(* grade_call, each as a state machine whose steps follow the statements   *)
(* of the Python source.                                                   *)
(*                                                                         *)
(* Strings are sequences of one-character strings; a speaker label is one  *)
(* opaque token of such a sequence.  JSON objects are functions whose      *)
(* domain is the set of keys that are present.  Times are integers.        *)
(***************************************************************************)
EXTENDS Integers, Sequences, FiniteSets, TLC

VARIABLES
    pc,                 \* position of the running operation
    \* ---- _parse_transcriptions ----
    raw_dir,            \* raw_output_dir: file name -> decoded JSON document
    files,              \* sorted(os.listdir(raw_output_dir))
    fidx,               \* position of the "for fname" loop
    all_entries,        \* all_entries
    origin,             \* history: for each entry of all_entries, its file and position
    contrib,            \* history: file name -> what that document appended
    eidx,               \* position of the "for entry" loop
    conversation_lines, \* conversation_lines
    speaker_times,      \* speaker_times, an insertion-ordered dict
    conversation_file,  \* _conversation.txt
    timing_file,        \* _timing.json
    \* ---- split_audio ----
    audio_path, audio_len, chunk_duration_ms, output_dir,
    fs_dirs,            \* directories that exist
    fs_files,           \* chunk files exported so far: path -> window
    chunks,             \* chunks
    split_result,       \* what split_audio returned or raised
    \* ---- grade_call ----
    transcript, scorecard_items, grade_output_dir,
    llm_calls,          \* number of client.chat.completions calls
    response_text,      \* response.choices[0].message.content
    grading_result,     \* what json.loads returned
    result,             \* the dict grade_call returns
    grade_outcome,      \* "returned" or "raised"
    grading_files,      \* grading_*.json files written
    \* ---- transcribe_audio ----
    audio_paths,        \* audio_paths: the recordings, each a path and a length
    transcribe_dir,     \* output_dir of transcribe_audio
    path_idx,           \* position of the "for path" loop
    all_paths,          \* all_paths
    job_calls,          \* number of calls of each method of the batch job
    job_state,          \* status.job_state
    downloaded,         \* history: what download_outputs wrote in this invocation
    raised_at,          \* history: the step of this invocation that raised, "" when none
    transcribe_result,  \* the dict transcribe_audio returns
    transcribe_outcome, \* "none", "running", "returned" or "raised"
    disk,               \* output directory -> its raw documents and artifacts
    invocations,        \* number of transcribe_audio invocations so far
    \* ---- analyze_call, answer_question ----
    text_op,            \* "analyze_call" or "answer_question"
    transcription_file, \* the file at conversation_file
    transcription,      \* transcription
    chat_calls,         \* number of client.chat.completions calls
    chat_content,       \* response.choices[0].message.content
    text_result,        \* the dict the operation returns
    text_outcome,       \* "none", "returned" or "raised"
    text_files,         \* _analysis.txt and _question_*.txt files written
    \* ---- database ----
    calls,              \* table calls: call_id -> row
    call_seq,           \* sqlite_sequence of calls: the greatest call_id ever used
    scorecards,         \* table scorecards: version -> row
    now,                \* CURRENT_TIMESTAMP
    db_op,              \* the last database operation and its arguments
    db_ret,             \* what it returned or raised
    saved,              \* history: call_id -> the arguments of the save_call that returned it
    deleted,            \* history: the call_ids delete_call removed
    scorecard_log,      \* history: the save_scorecard calls, oldest first
    \* ---- dashboard (app.py) ----
    processed_call,     \* st.session_state.processed_call
    scorecard_criteria, \* st.session_state.scorecard_criteria
    app_log             \* history: what the last run of the process handler did

parseVars == <<raw_dir, files, fidx, all_entries, origin, contrib, eidx,
               conversation_lines, speaker_times, conversation_file, timing_file>>
splitVars == <<audio_path, audio_len, chunk_duration_ms, output_dir,
               fs_dirs, fs_files, chunks, split_result>>
gradeVars == <<transcript, scorecard_items, grade_output_dir, llm_calls,
               response_text, grading_result, result, grade_outcome, grading_files>>
jobVars == <<audio_paths, transcribe_dir, path_idx, all_paths, job_calls, job_state,
             downloaded, raised_at, transcribe_result, transcribe_outcome, disk,
             invocations>>
textVars == <<text_op, transcription_file, transcription, chat_calls, chat_content,
              text_result, text_outcome, text_files>>
dbVars == <<calls, call_seq, scorecards, now, db_op, db_ret, saved, deleted,
            scorecard_log>>
appVars == <<processed_call, scorecard_criteria, app_log>>
vars == <<pc, parseVars, splitVars, gradeVars, jobVars, textVars, dbVars, appVars>>

-----------------------------------------------------------------------------
(* Bounds *)

MaxEntries == 2     \* entries per diarized list
MaxFiles == 2       \* files in raw_output_dir
MaxDuration == 9    \* len(audio)
MaxChunk == 4       \* chunk_duration_ms
MaxItems == 2       \* scorecard items
MaxSegments == 4    \* segments of an LLM response
MaxRecordings == 2  \* recordings of one transcribe_audio invocation
MaxOutputs == 1     \* result documents of one batch job
MaxInvocations == 2 \* transcribe_audio invocations
MaxCalls == 3       \* save_call insertions
MaxTime == 1        \* seconds the clock of the store advances
MaxVersion == 2     \* scorecard versions
MaxSaves == 3       \* save_scorecard calls
FloatBits == 3      \* bits of the significand of a float
MaxTurns == 3       \* entries of one long diarized list
MaxGaps == 1        \* entries of one diarized list with absent fields
MaxNames == 1001    \* len(audio) of a recording cut into one-unit chunks

-----------------------------------------------------------------------------
(* Python helpers *)

Max(a, b) == IF a >= b THEN a ELSE b
Min(a, b) == IF a <= b THEN a ELSE b

\* float arithmetic: the result of + and - is the representable number nearest
\* to x, ties to the even significand; numbers are multiples of the smallest
\* unit and a significand has FloatBits bits (53 in Python)
FloatRound(x) ==
    LET m == IF x < 0 THEN 0 - x ELSE x
        e == CHOOSE k \in 0..16 :
                /\ m < 2^(FloatBits + k)
                /\ k = 0 \/ m >= 2^(FloatBits + k - 1)
        q == 2^e
        lo == (m \div q) * q
        near == IF 2 * (m - lo) < q THEN lo
                ELSE IF 2 * (m - lo) > q THEN lo + q
                ELSE IF (lo \div q) % 2 = 0 THEN lo ELSE lo + q
    IN IF x < 0 THEN 0 - near ELSE near

\* dict.get(key, default)
Get(d, k, default) == IF k \in DOMAIN d THEN d[k] ELSE default

\* {} : a JSON object without keys
EmptyObj == [k \in {} |-> 0]

Whitespace == {" ", "\t", "\n"}

RECURSIVE LStrip(_)
LStrip(s) == IF s # <<>> /\ Head(s) \in Whitespace THEN LStrip(Tail(s)) ELSE s

RECURSIVE RStrip(_)
RStrip(s) ==
    IF s # <<>> /\ s[Len(s)] \in Whitespace THEN RStrip(SubSeq(s, 1, Len(s) - 1)) ELSE s

\* str.strip()
Strip(s) == RStrip(LStrip(s))

\* str.endswith(suffix)
EndsWith(s, suffix) ==
    /\ Len(s) >= Len(suffix)
    /\ SubSeq(s, Len(s) - Len(suffix) + 1, Len(s)) = suffix

\* ord(c) for the characters of the file names
Ord == [c \in {".", "0", "1", "2", "3", "4", "5", "6", "7", "8", "9", "_",
               "a", "b", "c", "h", "j", "k", "l", "m", "n", "o", "p", "s", "t",
               "u", "v", "w", "x"} |->
          CASE c = "." -> 46 [] c = "0" -> 48 [] c = "1" -> 49 [] c = "2" -> 50
            [] c = "3" -> 51 [] c = "4" -> 52 [] c = "5" -> 53 [] c = "6" -> 54
            [] c = "7" -> 55 [] c = "8" -> 56 [] c = "9" -> 57 [] c = "_" -> 95
            [] c = "a" -> 97 [] c = "b" -> 98 [] c = "c" -> 99 [] c = "h" -> 104
            [] c = "j" -> 106 [] c = "k" -> 107 [] c = "l" -> 108 [] c = "m" -> 109
            [] c = "n" -> 110 [] c = "o" -> 111 [] c = "p" -> 112 [] c = "s" -> 115
            [] c = "t" -> 116 [] c = "u" -> 117 [] c = "v" -> 118 [] c = "w" -> 119
            [] c = "x" -> 120]

\* a < b for str: code-point lexicographic order
RECURSIVE StrLess(_, _)
StrLess(a, b) ==
    IF b = <<>> THEN FALSE
    ELSE IF a = <<>> THEN TRUE
    ELSE IF Head(a) = Head(b) THEN StrLess(Tail(a), Tail(b))
    ELSE Ord[Head(a)] < Ord[Head(b)]

\* sorted(names) for a listing without duplicates
RECURSIVE Sorted(_)
Sorted(S) ==
    IF S = {} THEN <<>>
    ELSE LET m == CHOOSE x \in S : \A y \in S \ {x} : StrLess(x, y)
         IN <<m>> \o Sorted(S \ {m})

\* An insertion-ordered dict is a sequence of <<key, value>> pairs.
DictHas(d, k) == \E i \in 1..Len(d) : d[i][1] = k
DictGet(d, k, default) ==
    IF DictHas(d, k) THEN d[CHOOSE i \in 1..Len(d) : d[i][1] = k][2] ELSE default

\* variant: the updated key moves to the end
DictSetMoveLast(d, k, v) ==
    LET keep == { i \in 1..Len(d) : d[i][1] # k }
        rest == [i \in 1..Cardinality(keep) |->
                    d[CHOOSE j \in keep : Cardinality({ m \in keep : m < j }) = i - 1]]
    IN Append(rest, <<k, v>>)

\* d[k] = v : an existing key keeps its place, a new key goes last
DictSet(d, k, v) ==
    IF DictHas(d, k)
    THEN [i \in 1..Len(d) |-> IF d[i][1] = k THEN <<k, v>> ELSE d[i]]
    ELSE Append(d, <<k, v>>)

\* "\n".join(lines)
RECURSIVE Join(_)
Join(lines) ==
    IF lines = <<>> THEN <<>>
    ELSE IF Len(lines) = 1 THEN lines[1]
    ELSE lines[1] \o <<"\n">> \o Join(Tail(lines))

-----------------------------------------------------------------------------
(* Inputs of _parse_transcriptions *)

DotJson == <<".", "j", "s", "o", "n">>

\* a.json < a.txt < ab.json < b.json in code-point order
JsonNames == { <<"a">> \o DotJson, <<"a", "b">> \o DotJson, <<"b">> \o DotJson }
OtherNames == { <<"a", ".", "t", "x", "t">> }
FileNames == JsonNames \cup OtherNames

\* provider entries: one speaker with a regular and an inverted interval, an
\* empty text, a missing speaker_id, a missing start time
Entries ==
    { [speaker_id |-> "SPEAKER_01", transcript |-> <<" ", "h", "i">>,
       start_time_seconds |-> 1, end_time_seconds |-> 3],
      [speaker_id |-> "SPEAKER_01", transcript |-> <<>>,
       start_time_seconds |-> 3, end_time_seconds |-> 1],
      [transcript |-> <<"a", " ", "b", "\n">>, end_time_seconds |-> 4] }

EntryLists == UNION { [1..n -> Entries] : n \in 0..MaxEntries }

DiarizedParts ==
    {EmptyObj} \cup { [diarized_transcript |-> EmptyObj] }
               \cup { [diarized_transcript |-> [entries |-> l]] : l \in EntryLists }

FlatParts == {EmptyObj} \cup { [transcript |-> <<"o", "k", " ">>] }

\* the union of two objects with disjoint keys
Merge(a, b) == [k \in DOMAIN a \cup DOMAIN b |-> IF k \in DOMAIN a THEN a[k] ELSE b[k]]

Documents == { Merge(d, f) : d \in DiarizedParts, f \in FlatParts }

\* what a file that is not a provider result holds; it is never to be read
OtherContent ==
    [diarized_transcript |-> [entries |-> << [speaker_id |-> "NOT_JSON", transcript |-> <<"x">>,
                                             start_time_seconds |-> 0, end_time_seconds |-> 1] >>]]

Directories ==
    UNION { { d \in [S -> Documents \cup {OtherContent}] :
                \A n \in S : (n \in OtherNames) <=> (d[n] = OtherContent) } :
            S \in { T \in SUBSET FileNames : Cardinality(T) <= MaxFiles } }

-----------------------------------------------------------------------------
(* _parse_transcriptions *)

NoFile == [written |-> FALSE, content |-> <<>>]

ParseIdle ==
    /\ raw_dir = EmptyObj /\ files = <<>> /\ fidx = 0 /\ all_entries = <<>>
    /\ origin = <<>> /\ contrib = EmptyObj /\ eidx = 0
    /\ conversation_lines = <<>> /\ speaker_times = <<>>
    /\ conversation_file = NoFile /\ timing_file = NoFile

\* the entry synthesized from a flat transcript
FallbackEntry(data) ==
    [speaker_id |-> "SPEAKER_00", transcript |-> data["transcript"],
     start_time_seconds |-> 0, end_time_seconds |-> 0]

\* variant: the fallback entry is added whenever a transcript is present
DocEntriesPlain(data) ==
    LET diarized == Get(data, "diarized_transcript", EmptyObj)
        entries == Get(diarized, "entries", <<>>)
    IN entries \o (IF "transcript" \in DOMAIN data THEN <<FallbackEntry(data)>> ELSE <<>>)

\* the entries one document appends to all_entries
DocEntries(data) ==
    LET diarized == Get(data, "diarized_transcript", EmptyObj)
        entries == Get(diarized, "entries", <<>>)
    IN entries \o (IF entries = <<>> /\ "transcript" \in DOMAIN data
                   THEN <<FallbackEntry(data)>> ELSE <<>>)

\* variant: the listing in descending order
ListDirReversed(dir) ==
    LET s == Sorted(DOMAIN dir) IN [i \in 1..Len(s) |-> s[Len(s) + 1 - i]]

\* sorted(os.listdir(raw_output_dir))
ListDir(dir) == Sorted(DOMAIN dir)

\* fname.endswith(".json")
IsResultFile(fname) == EndsWith(fname, DotJson)

ParseList ==
    /\ pc = "parse_start"
    /\ files' = ListDir(raw_dir)
    /\ fidx' = 1
    /\ pc' = "parse_collect"
    /\ UNCHANGED <<raw_dir, all_entries, origin, contrib, eidx, conversation_lines,
                   speaker_times, conversation_file, timing_file>>
    /\ UNCHANGED <<splitVars, gradeVars, jobVars, textVars, dbVars, appVars>>

\* "continue" for a file that is not *.json
ParseSkipFile ==
    /\ pc = "parse_collect"
    /\ fidx <= Len(files)
    /\ ~IsResultFile(files[fidx])
    /\ fidx' = fidx + 1
    /\ UNCHANGED <<pc, raw_dir, files, all_entries, origin, contrib, eidx,
                   conversation_lines, speaker_times, conversation_file, timing_file>>
    /\ UNCHANGED <<splitVars, gradeVars, jobVars, textVars, dbVars, appVars>>

\* one iteration of the "for fname" loop over a *.json file
ParseReadFile ==
    /\ pc = "parse_collect"
    /\ fidx <= Len(files)
    /\ IsResultFile(files[fidx])
    /\ LET fname == files[fidx]
           added == DocEntries(raw_dir[fname])
       IN /\ all_entries' = all_entries \o added
          /\ origin' = origin \o [i \in 1..Len(added) |-> <<fname, i>>]
          /\ contrib' = [n \in DOMAIN contrib \cup {fname} |->
                            IF n = fname THEN added ELSE contrib[n]]
    /\ fidx' = fidx + 1
    /\ UNCHANGED <<pc, raw_dir, files, eidx, conversation_lines, speaker_times,
                   conversation_file, timing_file>>
    /\ UNCHANGED <<splitVars, gradeVars, jobVars, textVars, dbVars, appVars>>

ParseCollected ==
    /\ pc = "parse_collect"
    /\ fidx > Len(files)
    /\ eidx' = 1
    /\ pc' = "parse_aggregate"
    /\ UNCHANGED <<raw_dir, files, fidx, all_entries, origin, contrib,
                   conversation_lines, speaker_times, conversation_file, timing_file>>
    /\ UNCHANGED <<splitVars, gradeVars, jobVars, textVars, dbVars, appVars>>

\* variant: entry["speaker_id"], a KeyError when the key is absent
EntrySpeakerRequired(entry) ==
    IF "speaker_id" \in DOMAIN entry THEN entry["speaker_id"] ELSE "KeyError"

EntrySpeaker(entry) == Get(entry, "speaker_id", "UNKNOWN")
EntryText(entry) == Strip(Get(entry, "transcript", <<>>))

\* variant: the duration without the clamp
EntryDurationSigned(entry) ==
    FloatRound(Get(entry, "end_time_seconds", 0) - Get(entry, "start_time_seconds", 0))

\* duration = max(end - start, 0.0)
EntryDuration(entry) ==
    Max(FloatRound(Get(entry, "end_time_seconds", 0)
                     - Get(entry, "start_time_seconds", 0)), 0)

\* variant: the text is not stripped
RenderLineRaw(entry) == <<EntrySpeaker(entry), ":", " ">> \o Get(entry, "transcript", <<>>)

\* f"{speaker}: {text}"
RenderLine(entry) == <<EntrySpeaker(entry), ":", " ">> \o EntryText(entry)

\* one iteration of the "for entry" loop
ParseAggregateEntry ==
    /\ pc = "parse_aggregate"
    /\ eidx <= Len(all_entries)
    /\ LET entry == all_entries[eidx]
           speaker == EntrySpeaker(entry)
       IN /\ conversation_lines' = Append(conversation_lines, RenderLine(entry))
          /\ speaker_times' =
                DictSet(speaker_times, speaker,
                        FloatRound(DictGet(speaker_times, speaker, 0)
                                      + EntryDuration(entry)))
    /\ eidx' = eidx + 1
    /\ UNCHANGED <<pc, raw_dir, files, fidx, all_entries, origin, contrib,
                   conversation_file, timing_file>>
    /\ UNCHANGED <<splitVars, gradeVars, jobVars, textVars, dbVars, appVars>>

\* the text written to _conversation.txt
ConversationText(lines) == Join(lines) \o <<"\n">>

ParseWrite ==
    /\ pc = "parse_aggregate"
    /\ eidx > Len(all_entries)
    /\ conversation_file' = [written |-> TRUE, content |-> ConversationText(conversation_lines)]
    /\ timing_file' = [written |-> TRUE, content |-> speaker_times]
    /\ pc' = "parse_done"
    /\ UNCHANGED <<raw_dir, files, fidx, all_entries, origin, contrib, eidx,
                   conversation_lines, speaker_times>>
    /\ UNCHANGED <<splitVars, gradeVars, jobVars, textVars, dbVars, appVars>>

-----------------------------------------------------------------------------
(* split_audio *)

\* a path is a directory and a file name; a file name is a sequence of
\* tokens, the last of which may be an extension
Extensions == {".mp3", ".wav"}

AudioPaths == { [dir |-> "in", name |-> <<"call", ".mp3">>],
                [dir |-> "in", name |-> <<"call">>] }

\* output_dir as the caller passes it
OutputDirs == {"None", "out"}

NoResult == [status |-> "none", paths |-> <<>>, error |-> ""]

SplitIdle ==
    /\ audio_path = [dir |-> "", name |-> <<>>]
    /\ audio_len = 0 /\ chunk_duration_ms = 0
    /\ output_dir = "None" /\ fs_dirs = {} /\ fs_files = EmptyObj
    /\ chunks = <<>> /\ split_result = NoResult

\* os.path.splitext(name)
Splitext(name) ==
    IF name # <<>> /\ name[Len(name)] \in Extensions
    THEN <<SubSeq(name, 1, Len(name) - 1), name[Len(name)]>>
    ELSE <<name, "">>

DigitChar == [d \in 0..9 |->
                CASE d = 0 -> "0" [] d = 1 -> "1" [] d = 2 -> "2" [] d = 3 -> "3"
                  [] d = 4 -> "4" [] d = 5 -> "5" [] d = 6 -> "6" [] d = 7 -> "7"
                  [] d = 8 -> "8" [] d = 9 -> "9"]

\* str(i) for i >= 0
RECURSIVE Digits(_)
Digits(i) == IF i < 10 THEN <<DigitChar[i]>> ELSE Digits(i \div 10) \o <<DigitChar[i % 10]>>

\* f"{i:03d}"
Format03d(i) ==
    LET d == Digits(i) IN [k \in 1..(3 - Len(d)) |-> "0"] \o d

\* os.path.join(output_dir, f"{base_name}_chunk{i:03d}{ext}")
ChunkPath(dir, path, i) ==
    LET base_name == Splitext(path.name)[1]
        ext == IF Splitext(path.name)[2] # "" THEN Splitext(path.name)[2] ELSE ".wav"
    IN [dir |-> dir, name |-> base_name \o <<"_chunk">> \o Format03d(i) \o <<ext>>]

\* variant: the slice is not clamped to the audio
SliceUnclamped(len, start, stop) == [lo |-> Min(start, len), hi |-> Max(start, stop)]

\* audio[start : start + chunk_duration_ms]
Slice(len, start, stop) == [lo |-> Min(start, len), hi |-> Max(Min(start, len), Min(stop, len))]

\* variant: strict comparison
FitsOneChunkStrict(len, d) == len < d

\* len(audio) <= chunk_duration_ms
FitsOneChunk(len, d) == len <= d

\* tempfile.mkdtemp(prefix="sarvam_chunks_"): a directory that did not exist
TempDir == "sarvam_chunks_tmp"

\* audio = AudioSegment.from_file(audio_path)
SplitDecode ==
    /\ pc = "split_start"
    /\ \/ /\ pc' = "split_check"
          /\ UNCHANGED split_result
       \/ /\ pc' = "split_done"
          /\ split_result' = [status |-> "raised", paths |-> <<>>, error |-> "DecodeError"]
    /\ UNCHANGED <<audio_path, audio_len, chunk_duration_ms, output_dir,
                   fs_dirs, fs_files, chunks>>
    /\ UNCHANGED <<parseVars, gradeVars, jobVars, textVars, dbVars, appVars>>

\* return [audio_path]
SplitShort ==
    /\ pc = "split_check"
    /\ FitsOneChunk(audio_len, chunk_duration_ms)
    /\ split_result' = [status |-> "returned", paths |-> <<audio_path>>, error |-> ""]
    /\ pc' = "split_done"
    /\ UNCHANGED <<audio_path, audio_len, chunk_duration_ms, output_dir,
                   fs_dirs, fs_files, chunks>>
    /\ UNCHANGED <<parseVars, gradeVars, jobVars, textVars, dbVars, appVars>>

\* output_dir = mkdtemp() if None; os.makedirs(output_dir, exist_ok=True)
SplitMakeDirs ==
    /\ pc = "split_check"
    /\ ~FitsOneChunk(audio_len, chunk_duration_ms)
    /\ output_dir' = IF output_dir = "None" THEN TempDir ELSE output_dir
    /\ fs_dirs' = fs_dirs \cup {output_dir'}
    /\ pc' = "split_loop"
    /\ UNCHANGED <<audio_path, audio_len, chunk_duration_ms, fs_files, chunks, split_result>>
    /\ UNCHANGED <<parseVars, gradeVars, jobVars, textVars, dbVars, appVars>>

\* range(0, len(audio), 0) raises ValueError
SplitRangeError ==
    /\ pc = "split_loop"
    /\ chunk_duration_ms = 0
    /\ split_result' = [status |-> "raised", paths |-> <<>>, error |-> "ValueError"]
    /\ pc' = "split_done"
    /\ UNCHANGED <<audio_path, audio_len, chunk_duration_ms, output_dir,
                   fs_dirs, fs_files, chunks>>
    /\ UNCHANGED <<parseVars, gradeVars, jobVars, textVars, dbVars, appVars>>

\* one iteration of "for i, start in enumerate(range(0, len(audio), chunk_duration_ms))"
SplitExport ==
    /\ pc = "split_loop"
    /\ chunk_duration_ms > 0
    /\ Len(chunks) * chunk_duration_ms < audio_len
    /\ LET i == Len(chunks)
           start == i * chunk_duration_ms
           chunk == Slice(audio_len, start, start + chunk_duration_ms)
           chunk_path == ChunkPath(output_dir, audio_path, i)
       IN /\ fs_files' = [q \in DOMAIN fs_files \cup {chunk_path} |->
                             IF q = chunk_path THEN chunk ELSE fs_files[q]]
          /\ chunks' = Append(chunks, chunk_path)
    /\ UNCHANGED <<pc, audio_path, audio_len, chunk_duration_ms, output_dir,
                   fs_dirs, split_result>>
    /\ UNCHANGED <<parseVars, gradeVars, jobVars, textVars, dbVars, appVars>>

\* return chunks
SplitReturn ==
    /\ pc = "split_loop"
    /\ chunk_duration_ms > 0
    /\ Len(chunks) * chunk_duration_ms >= audio_len
    /\ split_result' = [status |-> "returned", paths |-> chunks, error |-> ""]
    /\ pc' = "split_done"
    /\ UNCHANGED <<audio_path, audio_len, chunk_duration_ms, output_dir,
                   fs_dirs, fs_files, chunks>>
    /\ UNCHANGED <<parseVars, gradeVars, jobVars, textVars, dbVars, appVars>>

-----------------------------------------------------------------------------
(* grade_call *)

\* str.find(sep, i): the first position >= i where sep occurs, 0 when none
RECURSIVE Find(_, _, _)
Find(text, sep, i) ==
    IF i + Len(sep) - 1 > Len(text) THEN 0
    ELSE IF SubSeq(text, i, i + Len(sep) - 1) = sep THEN i
    ELSE Find(text, sep, i + 1)

\* sep in text
Contains(text, sep) == Find(text, sep, 1) # 0

\* text.split(sep)
RECURSIVE Split(_, _)
Split(text, sep) ==
    LET i == Find(text, sep, 1)
    IN IF i = 0 THEN <<text>>
       ELSE <<SubSeq(text, 1, i - 1)>> \o Split(SubSeq(text, i + Len(sep), Len(text)), sep)

RECURSIVE Concat(_)
Concat(ss) == IF ss = <<>> THEN <<>> ELSE Head(ss) \o Concat(Tail(ss))

\* JSON texts the provider may embed, each one character of the response,
\* and what json.loads makes of them
GradeX == [criterion |-> "X", score |-> 5, reasoning |-> "ok"]

JsonDocs ==
    [t \in { "{\"grades\":[{\"criterion\":\"X\",\"score\":5,\"reasoning\":\"ok\"}],\"overall_score\":5,\"summary\":\"good\"}",
             "{\"grades\":[],\"overall_score\":0,\"summary\":\"\"}",
             "{}",
             "[]" } |->
        CASE t = "{\"grades\":[{\"criterion\":\"X\",\"score\":5,\"reasoning\":\"ok\"}],\"overall_score\":5,\"summary\":\"good\"}"
                -> [isdict |-> TRUE,
                    obj |-> [grades |-> <<GradeX>>, overall_score |-> 5, summary |-> "good"]]
          [] t = "{\"grades\":[],\"overall_score\":0,\"summary\":\"\"}"
                -> [isdict |-> TRUE,
                    obj |-> [grades |-> <<>>, overall_score |-> 0, summary |-> ""]]
          [] t = "{}" -> [isdict |-> TRUE, obj |-> EmptyObj]
          [] t = "[]" -> [isdict |-> FALSE, obj |-> EmptyObj]]

NoValue == [ok |-> FALSE, isdict |-> FALSE, obj |-> EmptyObj]

\* json.loads(text): one JSON value between optional whitespace, else
\* JSONDecodeError
JsonLoads(text) ==
    LET body == Strip(text)
    IN IF Len(body) = 1 /\ body[1] \in DOMAIN JsonDocs
       THEN [ok |-> TRUE, isdict |-> JsonDocs[body[1]].isdict, obj |-> JsonDocs[body[1]].obj]
       ELSE NoValue

\* the backquote character
Backquote == "BACKQUOTE"

\* the fence of a markdown code block, and the fence tagged json
Fence == <<Backquote, Backquote, Backquote>>
JsonFence == <<Backquote, Backquote, Backquote, "j", "s", "o", "n">>

\* variant: any fence is looked for before the json-tagged one
FencedTextGenericFirst(text) ==
    IF Contains(text, Fence)
    THEN [found |-> TRUE, json_str |-> Strip(Split(Split(text, Fence)[2], Fence)[1])]
    ELSE [found |-> FALSE, json_str |-> <<>>]

\* the text grade_call hands to json.loads in its except branch;
\* found = FALSE when the response has no fence
FencedText(text) ==
    IF Contains(text, JsonFence)
    THEN [found |-> TRUE, json_str |-> Strip(Split(Split(text, JsonFence)[2], Fence)[1])]
    ELSE IF Contains(text, Fence)
    THEN [found |-> TRUE, json_str |-> Strip(Split(Split(text, Fence)[2], Fence)[1])]
    ELSE [found |-> FALSE, json_str |-> <<>>]

\* variant: one message for every decoding failure
ParseResponseOneMessage(text) ==
    LET direct == JsonLoads(text)
        fenced == FencedText(text)
    IN IF direct.ok THEN [value |-> direct, error |-> ""]
       ELSE IF fenced.found /\ JsonLoads(fenced.json_str).ok
       THEN [value |-> JsonLoads(fenced.json_str), error |-> ""]
       ELSE [value |-> NoValue, error |-> "Could not parse grading response as JSON"]

\* the try/except around json.loads: the decoded value, or the exception
ParseResponse(text) ==
    LET direct == JsonLoads(text)
        fenced == FencedText(text)
    IN IF direct.ok THEN [value |-> direct, error |-> ""]
       ELSE IF ~fenced.found
       THEN [value |-> NoValue, error |-> "Could not parse grading response as JSON"]
       ELSE IF JsonLoads(fenced.json_str).ok
       THEN [value |-> JsonLoads(fenced.json_str), error |-> ""]
       ELSE [value |-> NoValue, error |-> "JSONDecodeError"]

\* variant: the scorecard list is not checked
InputErrorTranscriptOnly(t, items) ==
    IF Strip(t) = <<>> THEN "Empty transcript" ELSE ""

\* the early returns of grade_call: the error message, "" when the inputs pass
InputError(t, items) ==
    IF Strip(t) = <<>> THEN "Empty transcript"
    ELSE IF items = <<>> THEN "No scorecard items provided"
    ELSE ""

\* variant: a missing key is an error
SuccessResultStrict(gr) ==
    IF {"grades", "overall_score", "summary"} \subseteq DOMAIN gr
    THEN [status |-> "success", grades |-> gr["grades"],
          overall_score |-> gr["overall_score"], summary |-> gr["summary"]]
    ELSE [status |-> "failed", error |-> "KeyError"]

\* variant: an empty grade list is a failure
SuccessResultNonEmpty(gr) ==
    IF Get(gr, "grades", <<>>) = <<>>
    THEN [status |-> "failed", error |-> "No grades"]
    ELSE [status |-> "success", grades |-> gr["grades"],
          overall_score |-> Get(gr, "overall_score", 0), summary |-> Get(gr, "summary", "")]

\* the result dict of a successful grading
SuccessResult(gr) ==
    [status |-> "success", grades |-> Get(gr, "grades", <<>>),
     overall_score |-> Get(gr, "overall_score", 0), summary |-> Get(gr, "summary", "")]

\* variant: the exception is not caught
FailedReraise(e) == [outcome |-> "raised", result |-> EmptyObj]

\* except Exception as e: return {"status": "failed", "error": str(e)}
Failed(e) == [outcome |-> "returned", result |-> [status |-> "failed", error |-> e]]

Transcripts == { <<>>, <<" ", "\n">>, <<"h", "i", "\n">> }

Criteria == <<"Agent politeness", "Issue resolution", "Call duration", "Compliance">>

ScorecardLists == { SubSeq(Criteria, 1, n) : n \in 0..MaxItems }

Segments ==
    { Fence, JsonFence, <<"x", "\n">> } \cup { <<"\n", t>> : t \in DOMAIN JsonDocs }

Responses == { Concat(ss) : ss \in UNION { [1..n -> Segments] : n \in 0..MaxSegments } }

GradeIdle ==
    /\ transcript = <<>> /\ scorecard_items = <<>> /\ grade_output_dir = "None"
    /\ llm_calls = 0 /\ response_text = <<>> /\ grading_result = NoValue
    /\ result = EmptyObj /\ grade_outcome = "none" /\ grading_files = {}

\* the two input checks at the head of the try block
GradeValidate ==
    /\ pc = "grade_start"
    /\ IF InputError(transcript, scorecard_items) # ""
       THEN /\ result' = Failed(InputError(transcript, scorecard_items)).result
            /\ grade_outcome' = Failed(InputError(transcript, scorecard_items)).outcome
            /\ pc' = "grade_done"
       ELSE /\ pc' = "grade_llm"
            /\ UNCHANGED <<result, grade_outcome>>
    /\ UNCHANGED <<transcript, scorecard_items, grade_output_dir, llm_calls,
                   response_text, grading_result, grading_files>>
    /\ UNCHANGED <<parseVars, splitVars, jobVars, textVars, dbVars, appVars>>

\* response = self.client.chat.completions(...): the provider answers or raises
GradeCallLLM ==
    /\ pc = "grade_llm"
    /\ llm_calls' = llm_calls + 1
    /\ \/ /\ response_text' \in Responses
          /\ pc' = "grade_parse"
          /\ UNCHANGED <<result, grade_outcome>>
       \/ /\ result' = Failed("API Error").result
          /\ grade_outcome' = Failed("API Error").outcome
          /\ pc' = "grade_done"
          /\ UNCHANGED response_text
    /\ UNCHANGED <<transcript, scorecard_items, grade_output_dir, grading_result, grading_files>>
    /\ UNCHANGED <<parseVars, splitVars, jobVars, textVars, dbVars, appVars>>

\* json.loads with its fence fallbacks, then the construction of result
GradeParse ==
    /\ pc = "grade_parse"
    /\ LET parsed == ParseResponse(response_text)
       IN /\ grading_result' = parsed.value
          /\ IF parsed.error # ""
             THEN /\ result' = Failed(parsed.error).result
                  /\ grade_outcome' = Failed(parsed.error).outcome
                  /\ pc' = "grade_done"
             ELSE IF ~parsed.value.isdict
             THEN /\ result' = Failed("AttributeError").result
                  /\ grade_outcome' = Failed("AttributeError").outcome
                  /\ pc' = "grade_done"
             ELSE /\ result' = SuccessResult(parsed.value.obj)
                  /\ grade_outcome' = IF result'.status = "success" THEN grade_outcome
                                       ELSE "returned"
                  /\ pc' = IF result'.status = "success" THEN "grade_save" ELSE "grade_done"
    /\ UNCHANGED <<transcript, scorecard_items, grade_output_dir, llm_calls,
                   response_text, grading_files>>
    /\ UNCHANGED <<parseVars, splitVars, jobVars, textVars, dbVars, appVars>>

\* if output_dir: write grading_<timestamp>.json; return result
GradeSave ==
    /\ pc = "grade_save"
    /\ IF grade_output_dir # "None"
       THEN /\ grading_files' = grading_files \cup
                                   {[dir |-> grade_output_dir, content |-> result]}
            /\ result' = [k \in DOMAIN result \cup {"grading_file"} |->
                            IF k = "grading_file" THEN grade_output_dir ELSE result[k]]
       ELSE UNCHANGED <<grading_files, result>>
    /\ grade_outcome' = "returned"
    /\ pc' = "grade_done"
    /\ UNCHANGED <<transcript, scorecard_items, grade_output_dir, llm_calls,
                   response_text, grading_result>>
    /\ UNCHANGED <<parseVars, splitVars, jobVars, textVars, dbVars, appVars>>

-----------------------------------------------------------------------------
(* transcribe_audio *)

\* chunk_duration_ms: int = 60 * 60 * 1000
DefaultChunkDurationMs == 60 * 60 * 1000

\* recordings: one that fits a chunk, one that needs three
Recordings ==
    { [path |-> [dir |-> "in", name |-> <<"call", ".mp3">>], len |-> DefaultChunkDurationMs],
      [path |-> [dir |-> "in", name |-> <<"long", ".wav">>],
       len |-> 2 * DefaultChunkDurationMs + 1] }

\* output_dir: the default "outputs", or a directory of the caller
TranscribeDirs == {"outputs", "run"}

\* the methods of the batch job, in the order transcribe_audio calls them
JobMethods == {"create_job", "upload_files", "start", "wait_until_complete",
               "download_outputs"}

\* variant: no case folding
LowerIdentity(s) == s

\* str.lower()
Lower(s) ==
    LET LowerChar(c) ==
            CASE c = "A" -> "a" [] c = "C" -> "c" [] c = "D" -> "d" [] c = "E" -> "e"
              [] c = "F" -> "f" [] c = "I" -> "i" [] c = "L" -> "l" [] c = "R" -> "r"
              [] OTHER -> c
    IN [i \in 1..Len(s) |-> LowerChar(s[i])]

\* status.job_state.lower() == "failed"
JobFailed(state) == Lower(state) = <<"f", "a", "i", "l", "e", "d">>

\* what download_outputs writes: result documents, one per file
JobOutputs ==
    LET names == { <<"a">> \o DotJson, <<"b">> \o DotJson }
        documents ==
            { [diarized_transcript |->
                  [entries |-> << [speaker_id |-> "SPEAKER_01",
                                   transcript |-> <<" ", "h", "i">>,
                                   start_time_seconds |-> 1, end_time_seconds |-> 3] >>]],
              [transcript |-> <<"o", "k", " ">>] }
    IN UNION { [S -> documents] :
               S \in { T \in SUBSET names : Cardinality(T) <= MaxOutputs } }

\* raw_output_dir after job.download_outputs(output_dir=raw_output_dir)
AfterDownload(dir, new) ==
    [n \in DOMAIN dir \cup DOMAIN new |-> IF n \in DOMAIN new THEN new[n] ELSE dir[n]]

JobIdle ==
    /\ audio_paths = <<>> /\ transcribe_dir = "" /\ path_idx = 0 /\ all_paths = <<>>
    /\ job_calls = [m \in JobMethods |-> 0] /\ job_state = <<>> /\ downloaded = EmptyObj
    /\ raised_at = "" /\ transcribe_result = EmptyObj /\ transcribe_outcome = "none"
    /\ disk = [d \in TranscribeDirs |->
                  [raw |-> EmptyObj, conversation |-> NoFile, timing |-> NoFile]] /\ invocations = 0

\* entry of transcribe_audio with recordings that exist:
\* os.makedirs(output_dir, exist_ok=True)
TranscribeCall ==
    /\ pc \in {"transcribe_idle", "transcribe_done"}
    /\ invocations < MaxInvocations
    /\ invocations' = invocations + 1
    /\ audio_paths' \in UNION { [1..n -> Recordings] : n \in 0..MaxRecordings }
    /\ transcribe_dir' \in TranscribeDirs
    /\ path_idx' = 1 /\ all_paths' = <<>> /\ job_calls' = [m \in JobMethods |-> 0] /\ job_state' = <<>>
    /\ downloaded' = EmptyObj /\ raised_at' = ""
    /\ transcribe_result' = EmptyObj /\ transcribe_outcome' = "running"
    /\ fs_dirs' = fs_dirs \cup {transcribe_dir'}
    /\ raw_dir' = disk[transcribe_dir'].raw
    /\ conversation_file' = disk[transcribe_dir'].conversation
    /\ timing_file' = disk[transcribe_dir'].timing
    /\ files' = <<>> /\ fidx' = 0 /\ all_entries' = <<>> /\ origin' = <<>>
    /\ contrib' = EmptyObj /\ eidx' = 0 /\ conversation_lines' = <<>>
    /\ speaker_times' = <<>>
    /\ fs_files' =
          LET given == { audio_paths'[i] : i \in 1..Len(audio_paths') }
          IN [q \in DOMAIN fs_files \cup { r.path : r \in given } |->
                IF \E r \in given : r.path = q
                THEN [lo |-> 0, hi |-> (CHOOSE r \in given : r.path = q).len]
                ELSE fs_files[q]]
    /\ pc' = "transcribe_split"
    /\ UNCHANGED <<audio_path, audio_len, chunk_duration_ms, output_dir,
                   chunks, split_result, disk>>
    /\ UNCHANGED <<gradeVars, textVars, dbVars, appVars>>

\* except Exception as e: return {"status": "failed", "error": str(e)}
TranscribeFail(step, e) ==
    /\ transcribe_result' = Failed(e).result
    /\ transcribe_outcome' = Failed(e).outcome
    /\ raised_at' = step
    /\ pc' = "transcribe_done"

\* split_audio(path) is entered for the next path
TranscribeSplitCall ==
    /\ pc = "transcribe_split"
    /\ path_idx <= Len(audio_paths)
    /\ audio_path' = audio_paths[path_idx].path
    /\ audio_len' = audio_paths[path_idx].len
    /\ chunk_duration_ms' = DefaultChunkDurationMs
    /\ output_dir' = "None"
    /\ chunks' = <<>>
    /\ split_result' = NoResult
    /\ pc' = "split_start"
    /\ UNCHANGED <<fs_dirs, fs_files, parseVars, gradeVars, jobVars, textVars, dbVars, appVars>>

\* all_paths.extend(split_audio(path)), or the exception of split_audio
TranscribeSplitReturn ==
    /\ pc = "split_done"
    /\ transcribe_outcome = "running"
    /\ IF split_result.status = "raised"
       THEN /\ TranscribeFail("split_audio", split_result.error)
            /\ UNCHANGED <<all_paths, path_idx>>
       ELSE /\ all_paths' = all_paths \o split_result.paths
            /\ path_idx' = path_idx + 1
            /\ pc' = "transcribe_split"
            /\ UNCHANGED <<transcribe_result, transcribe_outcome, raised_at>>
    /\ UNCHANGED <<audio_paths, transcribe_dir, job_calls, job_state, downloaded,
                   disk, invocations>>
    /\ UNCHANGED <<parseVars, splitVars, gradeVars, textVars, dbVars, appVars>>

\* one call of a method of the batch job: it returns or it raises
JobCall(method, next) ==
    /\ job_calls' = [job_calls EXCEPT ![method] = @ + 1]
    /\ \/ /\ pc' = next
          /\ UNCHANGED <<transcribe_result, transcribe_outcome, raised_at>>
       \/ TranscribeFail(method, "API Error")
    /\ UNCHANGED <<audio_paths, transcribe_dir, path_idx, all_paths, job_state,
                   downloaded, disk, invocations>>
    /\ UNCHANGED <<parseVars, splitVars, gradeVars, textVars, dbVars, appVars>>

\* variant: the job is created while files are still to be split
TranscribeCreateJobEarly ==
    /\ pc = "transcribe_split"
    /\ JobCall("create_job", "upload_files")

\* job = self.client.speech_to_text_translate_job.create_job(...)
TranscribeCreateJob ==
    /\ pc = "transcribe_split"
    /\ path_idx > Len(audio_paths)
    /\ JobCall("create_job", "upload_files")

\* job.upload_files(file_paths=all_paths)
TranscribeUpload ==
    /\ pc = "upload_files"
    /\ JobCall("upload_files", "start")

\* job.start()
TranscribeStart ==
    /\ pc = "start"
    /\ JobCall("start", "wait_until_complete")

\* status = job.wait_until_complete(poll_interval=5, timeout=600)
TranscribeWait ==
    /\ pc = "wait_until_complete"
    /\ job_calls' = [job_calls EXCEPT !["wait_until_complete"] = @ + 1]
    /\ \/ /\ job_state' \in { <<"C", "o", "m", "p", "l", "e", "t", "e", "d">>,
                             <<"F", "a", "i", "l", "e", "d">>,
                             <<"f", "a", "i", "l", "e", "d">>,
                             <<"F", "A", "I", "L", "E", "D">>,
                             <<"R", "u", "n", "n", "i", "n", "g">> }
          /\ pc' = "transcribe_check"
          /\ UNCHANGED <<transcribe_result, transcribe_outcome, raised_at>>
       \/ /\ TranscribeFail("wait_until_complete", "API Error")
          /\ UNCHANGED job_state
    /\ UNCHANGED <<audio_paths, transcribe_dir, path_idx, all_paths, downloaded, disk,
                   invocations>>
    /\ UNCHANGED <<parseVars, splitVars, gradeVars, textVars, dbVars, appVars>>

\* if status.job_state.lower() == "failed": return {"status": "failed", ...}
TranscribeJobFailed ==
    /\ pc = "transcribe_check"
    /\ JobFailed(job_state)
    /\ transcribe_result' = Failed("STT batch job failed").result
    /\ transcribe_outcome' = Failed("STT batch job failed").outcome
    /\ pc' = "transcribe_done"
    /\ UNCHANGED <<audio_paths, transcribe_dir, path_idx, all_paths, job_calls,
                   job_state, downloaded, raised_at, disk, invocations>>
    /\ UNCHANGED <<parseVars, splitVars, gradeVars, textVars, dbVars, appVars>>

\* job.download_outputs(output_dir=raw_output_dir), then _parse_transcriptions
\* is entered
TranscribeDownload ==
    /\ pc = "transcribe_check"
    /\ ~JobFailed(job_state)
    /\ job_calls' = [job_calls EXCEPT !["download_outputs"] = @ + 1]
    /\ \/ /\ downloaded' \in JobOutputs
          /\ raw_dir' = AfterDownload(raw_dir, downloaded')
          /\ disk' = [disk EXCEPT ![transcribe_dir].raw = raw_dir']
          /\ pc' = "parse_start"
          /\ UNCHANGED <<transcribe_result, transcribe_outcome, raised_at>>
       \/ /\ TranscribeFail("download_outputs", "API Error")
          /\ UNCHANGED <<downloaded, raw_dir, disk>>
    /\ UNCHANGED <<audio_paths, transcribe_dir, path_idx, all_paths, job_state,
                   invocations>>
    /\ UNCHANGED <<files, fidx, all_entries, origin, contrib, eidx, conversation_lines,
                   speaker_times, conversation_file, timing_file>>
    /\ UNCHANGED <<splitVars, gradeVars, textVars, dbVars, appVars>>

\* result = self._parse_transcriptions(...); result["status"] = "success"
TranscribeReturn ==
    /\ pc = "parse_done"
    /\ transcribe_outcome = "running"
    /\ transcribe_result' =
          [status |-> "success",
           conversation_file |-> <<transcribe_dir, "_conversation.txt">>,
           timing_file |-> <<transcribe_dir, "_timing.json">>,
           raw_output_dir |-> <<transcribe_dir, "raw">>]
    /\ transcribe_outcome' = "returned"
    /\ disk' = [disk EXCEPT ![transcribe_dir] =
                   [raw |-> raw_dir, conversation |-> conversation_file,
                    timing |-> timing_file]]
    /\ pc' = "transcribe_done"
    /\ UNCHANGED <<audio_paths, transcribe_dir, path_idx, all_paths, job_calls,
                   job_state, downloaded, raised_at, invocations>>
    /\ UNCHANGED <<parseVars, splitVars, gradeVars, textVars, dbVars, appVars>>

-----------------------------------------------------------------------------
(* analyze_call, answer_question *)

\* response.choices[0].message.content: a text, or None
NoContent == [none |-> TRUE, text |-> <<>>]

TextIdle ==
    /\ text_op = "" /\ transcription_file = [exists |-> FALSE, content |-> <<>>]
    /\ transcription = <<>>
    /\ chat_calls = 0 /\ chat_content = NoContent /\ text_result = EmptyObj
    /\ text_outcome = "none" /\ text_files = {}

TextFail(e) ==
    /\ text_result' = Failed(e).result
    /\ text_outcome' = Failed(e).outcome
    /\ pc' = "text_done"

\* with open(conversation_file, "r") as f: transcription = f.read(); only
\* analyze_call returns a failure for an empty transcription
ReadTranscription ==
    /\ pc = "text_start"
    /\ IF ~transcription_file.exists
       THEN /\ TextFail("FileNotFoundError")
            /\ UNCHANGED transcription
       ELSE /\ transcription' = transcription_file.content
            /\ IF text_op = "analyze_call" /\ Strip(transcription') = <<>>
               THEN TextFail("Empty transcription")
               ELSE /\ pc' = "text_llm"
                    /\ UNCHANGED <<text_result, text_outcome>>
    /\ UNCHANGED <<text_op, transcription_file, chat_calls, chat_content, text_files>>
    /\ UNCHANGED <<parseVars, splitVars, gradeVars, jobVars, dbVars, appVars>>

\* response = self.client.chat.completions(...): the provider answers or raises
CallChat ==
    /\ pc = "text_llm"
    /\ chat_calls' = chat_calls + 1
    /\ \/ /\ chat_content' \in { NoContent, [none |-> FALSE, text |-> <<"f", "i", "n", "e">>] }
          /\ pc' = "text_write"
          /\ UNCHANGED <<text_result, text_outcome>>
       \/ /\ TextFail("API Error")
          /\ UNCHANGED chat_content
    /\ UNCHANGED <<text_op, transcription_file, transcription, text_files>>
    /\ UNCHANGED <<parseVars, splitVars, gradeVars, jobVars, dbVars, appVars>>

\* f.write(analysis_text) raises TypeError for None; else the success result
AnalyzeWrite ==
    /\ text_op = "analyze_call"
    /\ pc = "text_write"
    /\ IF chat_content.none
       THEN /\ TextFail("TypeError")
            /\ UNCHANGED text_files
       ELSE /\ text_files' = text_files \cup
                                {[name |-> "_analysis.txt", content |-> chat_content.text]}
            /\ text_result' = [status |-> "success", analysis_text |-> chat_content.text,
                               analysis_file |-> "_analysis.txt"]
            /\ text_outcome' = "returned"
            /\ pc' = "text_done"
    /\ UNCHANGED <<text_op, transcription_file, transcription, chat_calls, chat_content>>
    /\ UNCHANGED <<parseVars, splitVars, gradeVars, jobVars, dbVars, appVars>>

\* f.write(f"Question: {question}\n\nAnswer:\n{answer}"), where None is
\* written as "None"; then the success result
AnswerWrite ==
    /\ text_op = "answer_question"
    /\ pc = "text_write"
    /\ text_files' = text_files \cup
                        {[name |-> "_question.txt",
                          content |-> <<"Answer:", "\n">> \o
                             (IF chat_content.none THEN <<"N", "o", "n", "e">>
                              ELSE chat_content.text)]}
    /\ text_result' = [status |-> "success", answer |-> chat_content,
                       answer_file |-> "_question.txt"]
    /\ text_outcome' = "returned"
    /\ pc' = "text_done"
    /\ UNCHANGED <<text_op, transcription_file, transcription, chat_calls, chat_content>>
    /\ UNCHANGED <<parseVars, splitVars, gradeVars, jobVars, dbVars, appVars>>

-----------------------------------------------------------------------------
(* database.py *)

\* Python values that json.dumps accepts: numbers, strings, lists and
\* dicts with string keys; a dict is the sequence of its items, a string
\* a sequence of characters (a key is written as one token)
JNum(n) == [kind |-> "num", val |-> n]
JStr(s) == [kind |-> "str", val |-> s]
JArr(xs) == [kind |-> "arr", val |-> xs]
JObj(items) == [kind |-> "obj", val |-> items]

Quote == "\""
Backslash == "\\"

\* the escapes json.dumps writes inside a string
RECURSIVE Escape(_)
Escape(s) ==
    IF s = <<>> THEN <<>>
    ELSE (IF Head(s) \in {Quote, Backslash} THEN <<Backslash, Head(s)>> ELSE <<Head(s)>>)
         \o Escape(Tail(s))

\* json.dumps(value): the text, one token per character, a number being
\* its decimal digits
RECURSIVE Dumps(_)
Dumps(v) ==
    LET RECURSIVE Items(_)
        Items(xs) ==
            IF xs = <<>> THEN <<>>
            ELSE Dumps(Head(xs))
                 \o (IF Len(xs) > 1 THEN <<",", " ">> \o Items(Tail(xs)) ELSE <<>>)
        RECURSIVE Pairs(_)
        Pairs(ps) ==
            IF ps = <<>> THEN <<>>
            ELSE <<Quote>> \o Escape(Head(ps)[1]) \o <<Quote, ":", " ">> \o Dumps(Head(ps)[2])
                 \o (IF Len(ps) > 1 THEN <<",", " ">> \o Pairs(Tail(ps)) ELSE <<>>)
    IN CASE v.kind = "num" -> Digits(v.val)
         [] v.kind = "str" -> <<Quote>> \o Escape(v.val) \o <<Quote>>
         [] v.kind = "arr" -> <<"[">> \o Items(v.val) \o <<"]">>
         [] v.kind = "obj" -> <<"{">> \o Pairs(v.val) \o <<"}">>

NoParse == [ok |-> FALSE, val |-> JNum(0), rest |-> <<>>]

\* the scanner of a JSON string, after its opening quote
RECURSIVE ScanString(_, _)
ScanString(toks, acc) ==
    IF toks = <<>> THEN NoParse
    ELSE IF Head(toks) = Quote THEN [ok |-> TRUE, val |-> JStr(acc), rest |-> Tail(toks)]
    ELSE IF Head(toks) = Backslash
    THEN IF Len(toks) >= 2 /\ toks[2] \in {Quote, Backslash}
         THEN ScanString(Tail(Tail(toks)), Append(acc, toks[2]))
         ELSE NoParse
    ELSE ScanString(Tail(toks), Append(acc, Head(toks)))

\* the scanner of a JSON number
RECURSIVE ScanNumber(_, _)
ScanNumber(toks, n) ==
    IF toks # <<>> /\ \E d \in 0..9 : DigitChar[d] = Head(toks)
    THEN ScanNumber(Tail(toks),
                    10 * n + (CHOOSE d \in 0..9 : DigitChar[d] = Head(toks)))
    ELSE [ok |-> TRUE, val |-> JNum(n), rest |-> toks]

\* the decoder of one JSON value at the head of the text
RECURSIVE ScanValue(_)
RECURSIVE ScanItems(_, _)
RECURSIVE ScanPairs(_, _)
ScanValue(text) ==
    LET toks == LStrip(text)
    IN IF toks = <<>> THEN NoParse
       ELSE IF Head(toks) = "{" THEN ScanPairs(Tail(toks), <<>>)
       ELSE IF Head(toks) = "[" THEN ScanItems(Tail(toks), <<>>)
       ELSE IF Head(toks) = Quote THEN ScanString(Tail(toks), <<>>)
       ELSE IF \E d \in 0..9 : DigitChar[d] = Head(toks) THEN ScanNumber(toks, 0)
       ELSE NoParse

ScanItems(text, acc) ==
    LET toks == LStrip(text)
    IN IF toks = <<>> THEN NoParse
       ELSE IF Head(toks) = "]" /\ acc = <<>>
       THEN [ok |-> TRUE, val |-> JArr(acc), rest |-> Tail(toks)]
       ELSE LET item == ScanValue(toks)
                after == LStrip(item.rest)
            IN IF ~item.ok \/ after = <<>> THEN NoParse
               ELSE IF Head(after) = ","
               THEN ScanItems(Tail(after), Append(acc, item.val))
               ELSE IF Head(after) = "]"
               THEN [ok |-> TRUE, val |-> JArr(Append(acc, item.val)), rest |-> Tail(after)]
               ELSE NoParse

ScanPairs(text, acc) ==
    LET toks == LStrip(text)
    IN IF toks = <<>> THEN NoParse
       ELSE IF Head(toks) = "}" /\ acc = <<>>
       THEN [ok |-> TRUE, val |-> JObj(acc), rest |-> Tail(toks)]
       ELSE IF Head(toks) # Quote THEN NoParse
       ELSE LET key == ScanString(Tail(toks), <<>>)
                colon == LStrip(key.rest)
            IN IF ~key.ok \/ colon = <<>> \/ Head(colon) # ":" THEN NoParse
               ELSE LET item == ScanValue(Tail(colon))
                        after == LStrip(item.rest)
                        pairs == Append(acc, <<key.val.val, item.val>>)
                    IN IF ~item.ok \/ after = <<>> THEN NoParse
                       ELSE IF Head(after) = "," THEN ScanPairs(Tail(after), pairs)
                       ELSE IF Head(after) = "}"
                       THEN [ok |-> TRUE, val |-> JObj(pairs), rest |-> Tail(after)]
                       ELSE NoParse

\* json.loads(text): the value, or ok = FALSE for JSONDecodeError
Loads(text) ==
    LET r == ScanValue(text)
    IN IF r.ok /\ LStrip(r.rest) = <<>> THEN [ok |-> TRUE, val |-> r.val]
       ELSE [ok |-> FALSE, val |-> JNum(0)]

\* Optional values
None == [none |-> TRUE]

Returned(x) == [kind |-> "returned", val |-> x]
Raised(e) == [kind |-> "raised", val |-> e]

\* grades as the dashboard stores them
GradesValues ==
    { JObj(<<>>),
      JObj(<< << <<"overall_score">>, JNum(85)>>, << <<"summary">>, JStr(<<"o", "k">>)>> >>),
      JObj(<< << <<"grades">>, JArr(<< JObj(<< << <<"criterion">>, JStr(<<"X", Quote, "Y">>)>>,
                                         << <<"score">>, JNum(5)>> >>) >>)>>,
              << <<"nested">>, JObj(<< << <<"tags">>, JArr(<<JStr(<<"a">>), JNum(10)>>)>>,
                                  << <<"empty">>, JArr(<<>>)>> >>)>> >>) }

\* the arguments of save_call
CallArgs ==
    LET payloads ==
            { [upload_time |-> "2024-01-15T10:30:00", transcript |-> "hello",
               analysis |-> "fine", grades |-> g] : g \in GradesValues \ {JObj(<<>>)} }
            \cup { [upload_time |-> "2024-01-16T09:00:00", transcript |-> "bye",
                    analysis |-> "", grades |-> JObj(<<>>)] }
    IN { [filename |-> f, upload_time |-> p.upload_time, transcript |-> p.transcript,
          analysis |-> p.analysis, grades |-> p.grades] :
         f \in {"call1.wav", "call2.wav"}, p \in payloads }

CallIds == 1..(MaxCalls + 1)

\* the tables after init_db on a new file
DbIdle ==
    /\ calls = EmptyObj /\ call_seq = 0 /\ scorecards = EmptyObj /\ now = 0
    /\ db_op = [name |-> "init_db"] /\ db_ret = Returned(None)
    /\ saved = EmptyObj /\ deleted = {} /\ scorecard_log = <<>>

\* variant: no UNIQUE constraint on filename
FilenameTakenNever(tbl, f) == FALSE

\* filename TEXT NOT NULL UNIQUE
FilenameTaken(tbl, f) == \E id \in DOMAIN tbl : tbl[id].filename = f

\* variant: INTEGER PRIMARY KEY without AUTOINCREMENT, the greatest rowid
\* of the table plus one
NextCallIdRowid(tbl, seq) ==
    IF DOMAIN tbl = {} THEN 1
    ELSE (CHOOSE m \in DOMAIN tbl : \A k \in DOMAIN tbl : k <= m) + 1

\* call_id INTEGER PRIMARY KEY AUTOINCREMENT
NextCallId(tbl, seq) == seq + 1

\* save_call(**a) after dt seconds: the insert, or IntegrityError and the
\* rollback of get_db_connection
InsertCall(a, dt) ==
    /\ now + dt <= MaxTime
    /\ now' = now + dt
    /\ db_op' = [name |-> "save_call", args |-> a]
    /\ IF FilenameTaken(calls, a.filename)
       THEN /\ db_ret' = Raised("IntegrityError")
            /\ UNCHANGED <<calls, call_seq, saved>>
       ELSE LET id == NextCallId(calls, call_seq)
            IN /\ calls' = [k \in DOMAIN calls \cup {id} |->
                               IF k = id
                               THEN [call_id |-> id, filename |-> a.filename,
                                     upload_time |-> a.upload_time,
                                     transcript |-> a.transcript,
                                     analysis |-> a.analysis,
                                     grades |-> Dumps(a.grades),
                                     created_at |-> now']
                               ELSE calls[k]]
               /\ call_seq' = id
               /\ db_ret' = Returned(id)
               /\ saved' = [k \in DOMAIN saved \cup {id} |->
                               IF k = id THEN a ELSE saved[k]]

SaveCall ==
    /\ pc = "db_calls"
    /\ call_seq < MaxCalls
    /\ \E a \in CallArgs, dt \in {0, 1} : InsertCall(a, dt)
    /\ UNCHANGED <<pc, scorecards, deleted, scorecard_log>>
    /\ UNCHANGED <<parseVars, splitVars, gradeVars, jobVars, textVars, appVars>>

\* the orders ORDER BY created_at DESC allows
RowOrders(tbl) ==
    { s \in [1..Cardinality(DOMAIN tbl) -> DOMAIN tbl] :
        /\ \A i, j \in DOMAIN s : i # j => s[i] # s[j]
        /\ \A i, j \in DOMAIN s : i < j => tbl[s[i]].created_at >= tbl[s[j]].created_at }

\* SELECT call_id, filename, upload_time, created_at FROM calls
GetAllCalls ==
    /\ pc = "db_calls"
    /\ db_op' = [name |-> "get_all_calls"]
    /\ \E s \in RowOrders(calls) :
          db_ret' = Returned([i \in DOMAIN s |->
                                [call_id |-> calls[s[i]].call_id,
                                 filename |-> calls[s[i]].filename,
                                 upload_time |-> calls[s[i]].upload_time,
                                 created_at |-> calls[s[i]].created_at]])
    /\ UNCHANGED <<pc, calls, call_seq, scorecards, now, saved, deleted, scorecard_log>>
    /\ UNCHANGED <<parseVars, splitVars, gradeVars, jobVars, textVars, appVars>>

\* variant: the stored text is returned undecoded
DetailsUndecoded(row) == Returned([none |-> FALSE, some |-> row])

\* dict(row) with result['grades'] = json.loads(result['grades'])
Details(row) ==
    IF Loads(row.grades).ok
    THEN Returned([none |-> FALSE, some |-> [row EXCEPT !.grades = Loads(row.grades).val]])
    ELSE Raised("JSONDecodeError")

GetCallDetails ==
    /\ pc = "db_calls"
    /\ \E id \in CallIds :
          /\ db_op' = [name |-> "get_call_details", args |-> id]
          /\ db_ret' = IF id \in DOMAIN calls THEN Details(calls[id]) ELSE Returned(None)
    /\ UNCHANGED <<pc, calls, call_seq, scorecards, now, saved, deleted, scorecard_log>>
    /\ UNCHANGED <<parseVars, splitVars, gradeVars, jobVars, textVars, appVars>>

\* variant: rowcount is not looked at
DeletedAlways(tbl, id) == TRUE

\* cursor.rowcount > 0 after DELETE FROM calls WHERE call_id = ?
Deleted(tbl, id) == id \in DOMAIN tbl

DeleteCall ==
    /\ pc = "db_calls"
    /\ \E id \in CallIds :
          /\ db_op' = [name |-> "delete_call", args |-> id]
          /\ db_ret' = Returned(Deleted(calls, id))
          /\ calls' = [k \in DOMAIN calls \ {id} |-> calls[k]]
          /\ deleted' = IF id \in DOMAIN calls THEN deleted \cup {id} ELSE deleted
    /\ UNCHANGED <<pc, call_seq, scorecards, now, saved, scorecard_log>>
    /\ UNCHANGED <<parseVars, splitVars, gradeVars, jobVars, textVars, appVars>>

\* variant: the greatest call_id
CountByMaxId(tbl) ==
    IF DOMAIN tbl = {} THEN 0 ELSE CHOOSE m \in DOMAIN tbl : \A k \in DOMAIN tbl : k <= m

\* SELECT COUNT(*) FROM calls
Count(tbl) == Cardinality(DOMAIN tbl)

GetCallCount ==
    /\ pc = "db_calls"
    /\ db_op' = [name |-> "get_call_count"]
    /\ db_ret' = Returned(Count(calls))
    /\ UNCHANGED <<pc, calls, call_seq, scorecards, now, saved, deleted, scorecard_log>>
    /\ UNCHANGED <<parseVars, splitVars, gradeVars, jobVars, textVars, appVars>>

\* variant: INSERT OR IGNORE
UpsertIgnore(tbl, v, row) ==
    [k \in DOMAIN tbl \cup {v} |-> IF k \in DOMAIN tbl THEN tbl[k] ELSE row]

\* INSERT OR REPLACE INTO scorecards (version, criteria)
Upsert(tbl, v, row) ==
    [k \in DOMAIN tbl \cup {v} |-> IF k = v THEN row ELSE tbl[k]]

SaveScorecard ==
    /\ pc = "db_scorecards"
    /\ Len(scorecard_log) < MaxSaves
    /\ \E v \in 1..MaxVersion, dt \in {0, 1},
          c \in { JArr(<<>>),
                  JArr(<< JObj(<< << <<"criterion">>, JStr(<<"A">>)>>,
                                  << <<"weight">>, JNum(1)>> >>) >>),
                  JObj(<< << <<"items">>, JArr(<<JStr(<<"B">>)>>)>> >>) } :
          /\ now + dt <= MaxTime
          /\ now' = now + dt
          /\ db_op' = [name |-> "save_scorecard", args |-> [version |-> v, criteria |-> c]]
          /\ scorecards' = Upsert(scorecards, v,
                                  [version |-> v, criteria |-> Dumps(c), created_at |-> now'])
          /\ scorecard_log' = Append(scorecard_log, [version |-> v, criteria |-> c])
    /\ db_ret' = Returned(None)
    /\ UNCHANGED <<pc, calls, call_seq, saved, deleted>>
    /\ UNCHANGED <<parseVars, splitVars, gradeVars, jobVars, textVars, appVars>>

\* dict(row) with result['criteria'] = json.loads(result['criteria'])
ScorecardResult(row) ==
    IF Loads(row.criteria).ok
    THEN Returned([none |-> FALSE, some |-> [row EXCEPT !.criteria = Loads(row.criteria).val]])
    ELSE Raised("JSONDecodeError")

GetScorecard ==
    /\ pc = "db_scorecards"
    /\ \E v \in 1..(MaxVersion + 1) :
          /\ db_op' = [name |-> "get_scorecard", args |-> v]
          /\ db_ret' = IF v \in DOMAIN scorecards THEN ScorecardResult(scorecards[v])
                       ELSE Returned(None)
    /\ UNCHANGED <<pc, calls, call_seq, scorecards, now, saved, deleted, scorecard_log>>
    /\ UNCHANGED <<parseVars, splitVars, gradeVars, jobVars, textVars, appVars>>

\* ORDER BY version DESC LIMIT 1
GetLatestScorecard ==
    /\ pc = "db_scorecards"
    /\ db_op' = [name |-> "get_latest_scorecard"]
    /\ db_ret' = IF DOMAIN scorecards = {} THEN Returned(None)
                 ELSE ScorecardResult(scorecards[CHOOSE m \in DOMAIN scorecards :
                                                    \A k \in DOMAIN scorecards : k <= m])
    /\ UNCHANGED <<pc, calls, call_seq, scorecards, now, saved, deleted, scorecard_log>>
    /\ UNCHANGED <<parseVars, splitVars, gradeVars, jobVars, textVars, appVars>>

-----------------------------------------------------------------------------
(* app.py *)

\* what the last run of the process handler did; transcript, analysis_text
\* and grades_data are its locals
NoRun ==
    [audio_file |-> "None", transcription |-> "none", analysis |-> "none",
     grading |-> "none", save |-> "none",
     transcript |-> <<>>, analysis_text |-> <<>>, grades_data |-> JObj(<<>>)]

\* the session state of a new session
AppIdle ==
    /\ processed_call = None /\ scorecard_criteria = <<>> /\ app_log = NoRun

\* the scorecard upload: the column of criteria replaces the list, a file
\* without such a column or an unreadable file leaves it
LoadScorecard ==
    /\ pc = "app"
    /\ \/ scorecard_criteria' \in {<<>>, <<"greeting", "closing">>}
       \/ UNCHANGED scorecard_criteria
    /\ UNCHANGED <<pc, processed_call, app_log>>
    /\ UNCHANGED <<parseVars, splitVars, gradeVars, jobVars, textVars, dbVars>>

\* variant: the grades of a failed grading are kept as well
GradesDataAlways(grading_res) ==
    JObj(<< << <<"grades">>, grading_res.grades>>,
            << <<"overall_score">>, grading_res.overall_score>>,
            << <<"summary">>, grading_res.summary>> >>)

\* grades_data after the grading step
GradesData(grading_res) ==
    IF grading_res.status = "success"
    THEN JObj(<< << <<"grades">>, grading_res.grades>>,
                 << <<"overall_score">>, grading_res.overall_score>>,
                 << <<"summary">>, grading_res.summary>> >>)
    ELSE JObj(<<>>)

\* variant: the record shown is the one of the upload, without its call_id
ProcessedCallUnsaved(call_id, a) ==
    [none |-> FALSE,
     some |-> [call_id |-> 0, filename |-> a.filename, transcript |-> a.transcript,
               analysis |-> a.analysis, grades |-> a.grades]]

\* st.session_state.processed_call after the save
ProcessedCall(call_id, a) ==
    [none |-> FALSE,
     some |-> [call_id |-> call_id, filename |-> a.filename, transcript |-> a.transcript,
               analysis |-> a.analysis, grades |-> a.grades]]

\* the process button: the upload is transcribed, the transcript analysed
\* and, with a scorecard, graded, the call saved and shown; an exception
\* ends the run with an error message
ProcessAudio ==
    /\ pc = "app"
    /\ call_seq < MaxCalls
    /\ \/ /\ app_log' = [NoRun EXCEPT !.audio_file = "None"]
          /\ UNCHANGED <<processed_call, dbVars>>
       \/ \E name \in {"call1.wav", "call2.wav"} :
             \/ /\ app_log' = [NoRun EXCEPT !.audio_file = name, !.transcription = "failed"]
                /\ UNCHANGED <<processed_call, dbVars>>
             \/ \E transcript_read \in {<<"\n">>, <<"A", ":", " ", "h", "i", "\n">>},
                   analysis_result \in
                       {[status |-> "failed", analysis_text |-> <<>>]} \cup
                       {[status |-> "success", analysis_text |-> <<"f", "i", "n", "e">>]},
                   grading_res \in
                       {[status |-> "failed", grades |-> JArr(<<>>),
                         overall_score |-> JNum(0), summary |-> JStr(<<>>)],
                        [status |-> "success",
                         grades |-> JArr(<< JObj(<< << <<"criterion">>, JStr(<<"a", Quote>>)>>,
                                                   << <<"score">>, JNum(4)>> >>) >>),
                         overall_score |-> JNum(80), summary |-> JStr(<<"o", "k">>)]},
                   dt \in {0, 1} :
                   \* analyze_call and grade_call fail on a blank transcript
                   /\ Strip(transcript_read) = <<>> => analysis_result.status = "failed"
                   /\ Strip(transcript_read) = <<>> => grading_res.status = "failed"
                   /\ LET analysis_text == IF analysis_result.status = "success"
                                           THEN analysis_result.analysis_text ELSE <<>>
                          graded == scorecard_criteria # <<>>
                          grades_data == IF graded THEN GradesData(grading_res)
                                         ELSE JObj(<<>>)
                          a == [filename |-> name,
                                upload_time |-> "2024-01-15T10:30:00",
                                transcript |-> transcript_read,
                                analysis |-> analysis_text, grades |-> grades_data]
                      IN /\ graded \/ grading_res.status = "failed"
                         /\ InsertCall(a, dt)
                         /\ app_log' = [audio_file |-> name, transcription |-> "success",
                                        analysis |-> analysis_result.status,
                                        grading |-> IF graded THEN grading_res.status
                                                    ELSE "none",
                                        save |-> db_ret'.kind,
                                        transcript |-> transcript_read,
                                        analysis_text |-> analysis_text,
                                        grades_data |-> grades_data]
                         /\ processed_call' = IF db_ret'.kind = "returned"
                                              THEN ProcessedCall(db_ret'.val, a)
                                              ELSE processed_call
                         /\ UNCHANGED <<scorecards, deleted, scorecard_log>>
    /\ UNCHANGED <<pc, scorecard_criteria>>
    /\ UNCHANGED <<parseVars, splitVars, gradeVars, jobVars, textVars>>

-----------------------------------------------------------------------------
(* CallAnalytics.grade_call of sarvam_engine.py *)

\* "Clean up potential markdown code blocks": the text handed to json.loads
CleanContent(content) ==
    IF Contains(content, JsonFence)
    THEN Split(Split(content, JsonFence)[2], Fence)[1]
    ELSE IF Contains(content, Fence)
    THEN Split(content, Fence)[1]
    ELSE content

\* grade_call(conversation_file, scorecard_criteria): the file is read, the
\* provider is called once and json.loads(content.strip()) is returned; any
\* exception is printed and None is returned
AnalyticsGradeCall ==
    /\ pc = "analytics_start"
    /\ \/ /\ UNCHANGED <<transcript, llm_calls, response_text, grading_result>>
          /\ result' = None
       \/ /\ transcript' \in Transcripts
          /\ llm_calls' = llm_calls + 1
          /\ \/ /\ UNCHANGED <<response_text, grading_result>>
                /\ result' = None
             \/ /\ response_text' \in Responses
                /\ grading_result' = JsonLoads(Strip(CleanContent(response_text')))
                /\ result' = IF grading_result'.ok
                             THEN [none |-> FALSE, some |-> grading_result']
                             ELSE None
    /\ grade_outcome' = "returned"
    /\ pc' = "analytics_done"
    /\ UNCHANGED <<scorecard_items, grade_output_dir, grading_files>>
    /\ UNCHANGED <<parseVars, splitVars, jobVars, textVars, dbVars, appVars>>

-----------------------------------------------------------------------------
(* Specifications *)

InitParse ==
    /\ pc = "parse_start"
    /\ raw_dir \in Directories
    /\ files = <<>> /\ fidx = 0 /\ all_entries = <<>>
    /\ origin = <<>> /\ contrib = EmptyObj /\ eidx = 0
    /\ conversation_lines = <<>> /\ speaker_times = <<>>
    /\ conversation_file = NoFile /\ timing_file = NoFile
    /\ SplitIdle /\ GradeIdle /\ JobIdle /\ TextIdle /\ DbIdle /\ AppIdle

NextParse ==
    \/ ParseList
    \/ ParseSkipFile
    \/ ParseReadFile
    \/ ParseCollected
    \/ ParseAggregateEntry
    \/ ParseWrite

SpecParse == InitParse /\ [][NextParse]_vars

InitSplit ==
    /\ pc = "split_start"
    /\ audio_path \in AudioPaths
    /\ audio_len \in 0..MaxDuration
    /\ chunk_duration_ms \in 0..MaxChunk
    /\ output_dir \in OutputDirs
    /\ fs_dirs \in { {"in"}, {"in", "out"} }
    /\ fs_files = [q \in {audio_path} |-> [lo |-> 0, hi |-> audio_len]]
    /\ chunks = <<>>
    /\ split_result = NoResult
    /\ ParseIdle /\ GradeIdle /\ JobIdle /\ TextIdle /\ DbIdle /\ AppIdle

NextSplit ==
    \/ SplitDecode
    \/ SplitShort
    \/ SplitMakeDirs
    \/ SplitRangeError
    \/ SplitExport
    \/ SplitReturn

SpecSplit == InitSplit /\ [][NextSplit]_vars

InitGrade ==
    /\ pc = "grade_start"
    /\ transcript \in Transcripts
    /\ scorecard_items \in ScorecardLists
    /\ grade_output_dir \in OutputDirs
    /\ llm_calls = 0 /\ response_text = <<>> /\ grading_result = NoValue
    /\ result = EmptyObj /\ grade_outcome = "none" /\ grading_files = {}
    /\ ParseIdle /\ SplitIdle /\ JobIdle /\ TextIdle /\ DbIdle /\ AppIdle

NextGrade ==
    \/ GradeValidate
    \/ GradeCallLLM
    \/ GradeParse
    \/ GradeSave

SpecGrade == InitGrade /\ [][NextGrade]_vars

InitTranscribe ==
    /\ pc = "transcribe_idle"
    /\ fs_dirs = {"in"}
    /\ audio_path = [dir |-> "", name |-> <<>>]
    /\ audio_len = 0 /\ chunk_duration_ms = 0
    /\ output_dir = "None" /\ fs_files = EmptyObj
    /\ chunks = <<>> /\ split_result = NoResult
    /\ ParseIdle /\ GradeIdle /\ JobIdle /\ TextIdle /\ DbIdle /\ AppIdle

NextTranscribe ==
    \/ TranscribeCall
    \/ TranscribeSplitCall
    \/ SplitDecode
    \/ SplitShort
    \/ SplitMakeDirs
    \/ SplitExport
    \/ SplitReturn
    \/ TranscribeSplitReturn
    \/ TranscribeCreateJob
    \/ TranscribeUpload
    \/ TranscribeStart
    \/ TranscribeWait
    \/ TranscribeJobFailed
    \/ TranscribeDownload
    \/ ParseList
    \/ ParseReadFile
    \/ ParseCollected
    \/ ParseAggregateEntry
    \/ ParseWrite
    \/ TranscribeReturn

SpecTranscribe == InitTranscribe /\ [][NextTranscribe]_vars

\* split_audio(audio_path, chunk_duration_ms) of a recording of MaxNames units
\* with chunk_duration_ms 0, 1 or MaxNames
InitNames ==
    /\ pc = "split_start"
    /\ audio_path \in AudioPaths
    /\ audio_len = MaxNames
    /\ chunk_duration_ms \in {0, 1, MaxNames}
    /\ output_dir = "None"
    /\ fs_dirs = {"in"}
    /\ fs_files = [q \in {audio_path} |-> [lo |-> 0, hi |-> audio_len]]
    /\ chunks = <<>>
    /\ split_result = NoResult
    /\ ParseIdle /\ GradeIdle /\ JobIdle /\ TextIdle /\ DbIdle /\ AppIdle

SpecNames == InitNames /\ [][NextSplit]_vars

\* _parse_transcriptions over one provider document a.json, next to a file
\* that is not a result: the document has up to MaxTurns complete entries, one
\* of them as long as the spacing of the floats at its end, or up to MaxGaps
\* entries from which any of the four fields are absent; diarized_transcript,
\* entries and transcript may be absent
InitEntries ==
    LET long == [speaker_id |-> "SPEAKER_01", transcript |-> <<"h", "i">>,
                 start_time_seconds |-> 0, end_time_seconds |-> 2^FloatBits]
        short == [speaker_id |-> "SPEAKER_01", transcript |-> <<" ", "o", "k">>,
                  start_time_seconds |-> 1, end_time_seconds |-> 2]
        other == [speaker_id |-> "SPEAKER_02", transcript |-> <<"n", "o">>,
                  start_time_seconds |-> 0, end_time_seconds |-> 1]
        gaps == { [k \in K |-> short[k]] : K \in SUBSET DOMAIN short }
        lists == UNION { [1..n -> {long, short, other}] : n \in 0..MaxTurns }
                    \cup UNION { [1..n -> gaps] : n \in 0..MaxGaps }
        diarized == {EmptyObj} \cup { [diarized_transcript |-> EmptyObj] }
                       \cup { [diarized_transcript |-> [entries |-> l]] : l \in lists }
        documents == { Merge(d, f) : d \in diarized, f \in FlatParts }
    IN /\ pc = "parse_start"
       /\ raw_dir \in { [n \in {<<"a">> \o DotJson} |-> d] : d \in documents }
                       \cup { [n \in {<<"a">> \o DotJson} \cup OtherNames |->
                                 IF n \in OtherNames THEN OtherContent ELSE d] :
                              d \in documents }
       /\ files = <<>> /\ fidx = 0 /\ all_entries = <<>>
       /\ origin = <<>> /\ contrib = EmptyObj /\ eidx = 0
       /\ conversation_lines = <<>> /\ speaker_times = <<>>
       /\ conversation_file = NoFile /\ timing_file = NoFile
       /\ SplitIdle /\ GradeIdle /\ JobIdle /\ TextIdle /\ DbIdle /\ AppIdle

SpecEntries == InitEntries /\ [][NextParse]_vars

\* one invocation of any operation of SarvamEngine
InitEngine ==
    \/ InitTranscribe
    \/ InitGrade
    \/ /\ pc = "text_start"
       /\ text_op \in {"analyze_call", "answer_question"}
       /\ transcription_file \in
             {[exists |-> FALSE, content |-> <<>>]}
                \cup { [exists |-> TRUE, content |-> t] : t \in Transcripts }
       /\ transcription = <<>> /\ chat_calls = 0 /\ chat_content = NoContent
       /\ text_result = EmptyObj /\ text_outcome = "none" /\ text_files = {}
       /\ ParseIdle /\ SplitIdle /\ GradeIdle /\ JobIdle /\ DbIdle /\ AppIdle
    \/ /\ pc = "analytics_start"
       /\ ParseIdle /\ SplitIdle /\ GradeIdle /\ JobIdle /\ TextIdle /\ DbIdle /\ AppIdle

NextEngine ==
    \/ NextTranscribe
    \/ NextGrade
    \/ ReadTranscription
    \/ CallChat
    \/ AnalyzeWrite
    \/ AnswerWrite
    \/ AnalyticsGradeCall

SpecEngine == InitEngine /\ [][NextEngine]_vars

\* the store after init_db; a run works on the call records or on the
\* scorecards
InitStore ==
    /\ pc \in {"db_calls", "db_scorecards"}
    /\ ParseIdle /\ SplitIdle /\ GradeIdle /\ JobIdle /\ TextIdle /\ DbIdle /\ AppIdle

NextStore ==
    \/ SaveCall
    \/ GetAllCalls
    \/ GetCallDetails
    \/ DeleteCall
    \/ GetCallCount
    \/ SaveScorecard
    \/ GetScorecard
    \/ GetLatestScorecard

SpecStore == InitStore /\ [][NextStore]_vars

InitApp ==
    /\ pc = "app"
    /\ ParseIdle /\ SplitIdle /\ GradeIdle /\ JobIdle /\ TextIdle /\ DbIdle /\ AppIdle

NextApp ==
    \/ LoadScorecard
    \/ ProcessAudio

SpecApp == InitApp /\ [][NextApp]_vars

-----------------------------------------------------------------------------
(* Properties of _parse_transcriptions *)

IsJsonName(n) == Len(n) >= 5 /\ [i \in 1..5 |-> n[Len(n) - 5 + i]] = DotJson

\* the sum of f[x] over the x in S
RECURSIVE SumOver(_, _)
SumOver(S, f) ==
    IF S = {} THEN 0
    ELSE LET x == CHOOSE y \in S : TRUE IN f[x] + SumOver(S \ {x}, f)

Collected == pc \in {"parse_aggregate", "parse_done"}

\* C1: the *.json files are consumed in ascending lexical order of their
\* names, other files are ignored, and the conversation is the concatenation
\* of what the documents contribute: its length is the sum of the k_i and its
\* entries are ordered by document, then by position inside the document.
C1_DocumentThenEntryOrder ==
    Collected =>
        LET js == { n \in DOMAIN raw_dir : IsJsonName(n) }
        IN /\ DOMAIN contrib = js
           /\ Len(all_entries) = SumOver(js, [n \in js |-> Len(contrib[n])])
           /\ Len(origin) = Len(all_entries)
           /\ \A p \in 1..Len(all_entries) :
                 /\ origin[p][1] \in js
                 /\ origin[p][2] \in 1..Len(contrib[origin[p][1]])
                 /\ all_entries[p] = contrib[origin[p][1]][origin[p][2]]
           /\ \A p, q \in 1..Len(all_entries) :
                 p < q =>
                    \/ StrLess(origin[p][1], origin[q][1])
                    \/ origin[p][1] = origin[q][1] /\ origin[p][2] < origin[q][2]

\* two documents contribute three entries or more, and an entry of the later
\* document starts earlier than the entry before it
C1_Witness ==
    /\ pc = "parse_done"
    /\ Len(all_entries) >= 3
    /\ \E p \in 1..Len(all_entries) - 1 :
          /\ origin[p][1] # origin[p + 1][1]
          /\ Get(all_entries[p], "start_time_seconds", 0)
                > Get(all_entries[p + 1], "start_time_seconds", 0)

\* the diarized list of a document, <<>> when absent
DiarizedEntriesOf(data) ==
    IF "diarized_transcript" \in DOMAIN data
       /\ "entries" \in DOMAIN data["diarized_transcript"]
    THEN data["diarized_transcript"]["entries"] ELSE <<>>

\* C2: a document contributes (a) its diarized entries, unchanged, when the
\* list is non-empty, (b) exactly one SPEAKER_00 entry with the flat text and
\* start = end = 0 when the list is absent or empty and a transcript field is
\* present, (c) nothing otherwise.
C2_DocumentContribution ==
    \A n \in DOMAIN contrib :
        LET data == raw_dir[n]
            diar == DiarizedEntriesOf(data)
        IN /\ diar # <<>> => contrib[n] = diar
           /\ (diar = <<>> /\ "transcript" \in DOMAIN data) =>
                 /\ Len(contrib[n]) = 1
                 /\ contrib[n][1]["speaker_id"] = "SPEAKER_00"
                 /\ contrib[n][1]["transcript"] = data["transcript"]
                 /\ contrib[n][1]["start_time_seconds"] = 0
                 /\ contrib[n][1]["end_time_seconds"] = 0
           /\ (diar = <<>> /\ "transcript" \notin DOMAIN data) => contrib[n] = <<>>

\* a run that met all three cases, (a) with a flat transcript also present
C2_Witness ==
    /\ pc = "parse_done"
    /\ \E n \in DOMAIN contrib :
          /\ DiarizedEntriesOf(raw_dir[n]) # <<>>
          /\ "transcript" \in DOMAIN raw_dir[n]
          /\ contrib[n] = DiarizedEntriesOf(raw_dir[n])
    /\ \E n \in DOMAIN contrib :
          /\ DiarizedEntriesOf(raw_dir[n]) = <<>>
          /\ "transcript" \in DOMAIN raw_dir[n]
          /\ Len(contrib[n]) = 1

SpeakerOf(e) == IF "speaker_id" \in DOMAIN e THEN e["speaker_id"] ELSE "UNKNOWN"
StartOf(e) == IF "start_time_seconds" \in DOMAIN e THEN e["start_time_seconds"] ELSE 0
EndOf(e) == IF "end_time_seconds" \in DOMAIN e THEN e["end_time_seconds"] ELSE 0
ClampedDuration(e) == IF EndOf(e) > StartOf(e) THEN EndOf(e) - StartOf(e) ELSE 0

PositionsOf(label) == { p \in 1..Len(all_entries) : SpeakerOf(all_entries[p]) = label }
FirstPosition(label) == CHOOSE p \in PositionsOf(label) : \A q \in PositionsOf(label) : p <= q
DurationAt == [p \in 1..Len(all_entries) |-> ClampedDuration(all_entries[p])]

InvertedEntryStep ==
    /\ pc = "parse_aggregate" /\ eidx <= Len(all_entries) /\ eidx' = eidx + 1
    /\ EndOf(all_entries[eidx]) < StartOf(all_entries[eidx])

\* C4: every speaker total is >= 0 at every step of the aggregation and in
\* the final map; an entry with end < start adds exactly 0 to the total of
\* its speaker, and no step decreases a total.
C4_TotalsNeverNegative ==
    /\ [](\A i \in 1..Len(speaker_times) : speaker_times[i][2] >= 0)
    /\ [](timing_file.written =>
            \A i \in 1..Len(timing_file.content) : timing_file.content[i][2] >= 0)
    /\ [][ /\ InvertedEntryStep =>
                DictGet(speaker_times', SpeakerOf(all_entries[eidx]), 0)
                    = DictGet(speaker_times, SpeakerOf(all_entries[eidx]), 0)
           /\ \A i \in 1..Len(speaker_times) :
                DictGet(speaker_times', speaker_times[i][1], 0) >= speaker_times[i][2]
         ]_vars

\* an inverted entry was aggregated after its speaker already had a positive total
C4_Witness ==
    /\ pc = "parse_aggregate"
    /\ eidx > 2
    /\ EndOf(all_entries[eidx - 1]) < StartOf(all_entries[eidx - 1])
    /\ DictGet(speaker_times, SpeakerOf(all_entries[eidx - 1]), 0) > 0

\* t is s without its leading and trailing whitespace
IsStripOf(t, s) ==
    /\ t = <<>> \/ (t[1] \notin Whitespace /\ t[Len(t)] \notin Whitespace)
    /\ \E a \in 0..Len(s) :
          /\ a + Len(t) <= Len(s)
          /\ \A i \in 1..a : s[i] \in Whitespace
          /\ \A i \in 1..Len(t) : s[a + i] = t[i]
          /\ \A i \in (a + Len(t) + 1)..Len(s) : s[i] \in Whitespace

RECURSIVE Flatten(_)
Flatten(ss) == IF ss = <<>> THEN <<>> ELSE Head(ss) \o Flatten(Tail(ss))

\* C5: for a non-empty conversation, _conversation.txt holds one line
\* "{speaker}: {text}" per entry in conversation order, text being the
\* transcript without leading and trailing whitespace, every line (the last
\* one too) ended by a newline; an empty text gives the line "{speaker}: ".
C5_ConversationText ==
    (pc = "parse_done" /\ all_entries # <<>>) =>
        /\ conversation_file.written
        /\ Len(conversation_lines) = Len(all_entries)
        /\ \A p \in 1..Len(all_entries) :
              LET line == conversation_lines[p]
                  raw == IF "transcript" \in DOMAIN all_entries[p]
                         THEN all_entries[p]["transcript"] ELSE <<>>
              IN /\ Len(line) >= 3
                 /\ SubSeq(line, 1, 3) = <<SpeakerOf(all_entries[p]), ":", " ">>
                 /\ IsStripOf(SubSeq(line, 4, Len(line)), raw)
                 /\ raw = <<>> => line = <<SpeakerOf(all_entries[p]), ":", " ">>
        /\ conversation_file.content
              = Flatten([p \in 1..Len(conversation_lines) |-> conversation_lines[p] \o <<"\n">>])

\* an empty text and a text with whitespace on both ends were written
C5_Witness ==
    /\ pc = "parse_done"
    /\ \E p, q \in 1..Len(all_entries) :
          /\ Get(all_entries[p], "transcript", <<>>) = <<>>
          /\ conversation_lines[p] = <<"SPEAKER_01", ":", " ">>
          /\ Get(all_entries[q], "transcript", <<>>) = <<" ", "h", "i">>
          /\ conversation_lines[q] = <<"SPEAKER_01", ":", " ", "h", "i">>

-----------------------------------------------------------------------------
(* Properties of split_audio *)

Decoded == split_result.error # "DecodeError"

\* C6: for a duration <= chunk_duration_ms, split_audio returns exactly
\* [audio_path] and no step of it has another effect: no directory is
\* created, no chunk is exported, the source file is untouched.
C6_ShortAudioPassThrough ==
    /\ []((pc = "split_done" /\ audio_len <= chunk_duration_ms /\ Decoded) =>
            /\ split_result.status = "returned"
            /\ split_result.paths = <<audio_path>>
            /\ chunks = <<>>)
    /\ [][ audio_len <= chunk_duration_ms =>
             /\ fs_dirs' = fs_dirs
             /\ fs_files' = fs_files
             /\ output_dir' = output_dir ]_vars

\* the audio is exactly one chunk long and the requested directory is absent
C6_Witness ==
    /\ pc = "split_done"
    /\ split_result.status = "returned"
    /\ audio_len = chunk_duration_ms /\ audio_len > 0
    /\ output_dir = "out" /\ "out" \notin fs_dirs
    /\ DOMAIN fs_files = {audio_path}

DigitValue(c) == CHOOSE d \in 0..9 : DigitChar[d] = c

RECURSIVE DigitsValue(_)
DigitsValue(ds) ==
    IF ds = <<>> THEN 0
    ELSE 10 * DigitsValue(SubSeq(ds, 1, Len(ds) - 1)) + DigitValue(ds[Len(ds)])

\* the digits between "_chunk" and the extension of a chunk name
ChunkDigits(path) ==
    LET k == CHOOSE j \in 1..Len(path.name) : path.name[j] = "_chunk"
    IN SubSeq(path.name, k + 1, Len(path.name) - 1)

\* C7: for a duration > D = chunk_duration_ms > 0, split_audio returns
\* ceil(duration / D) chunk paths inside output_dir; chunk i is the window
\* [i*D, min((i+1)*D, duration)), so no chunk is longer than D, the windows
\* are disjoint and their lengths add up to the duration; the names carry
\* the indices 0, 1, 2, ... in increasing order.
C7_ChunkWindows ==
    (pc = "split_done" /\ chunk_duration_ms > 0 /\ audio_len > chunk_duration_ms /\ Decoded) =>
        LET D == chunk_duration_ms
            paths == split_result.paths
            n == Len(paths)
            size == [i \in 1..n |-> fs_files[paths[i]].hi - fs_files[paths[i]].lo]
        IN /\ split_result.status = "returned"
           /\ (n - 1) * D < audio_len /\ audio_len <= n * D
           /\ \A i \in 1..n :
                 /\ paths[i].dir = output_dir
                 /\ output_dir \in fs_dirs /\ output_dir # "None"
                 /\ paths[i] \in DOMAIN fs_files
                 /\ fs_files[paths[i]].lo = (i - 1) * D
                 /\ fs_files[paths[i]].hi = IF i * D <= audio_len THEN i * D ELSE audio_len
                 /\ size[i] > 0 /\ size[i] <= D
                 /\ Len(ChunkDigits(paths[i])) >= 3
                 /\ DigitsValue(ChunkDigits(paths[i])) = i - 1
           /\ \A i, j \in 1..n :
                 i < j => /\ fs_files[paths[i]].hi <= fs_files[paths[j]].lo
                          /\ paths[i] # paths[j]
           /\ SumOver(1..n, size) = audio_len
           /\ fs_files[audio_path] = [lo |-> 0, hi |-> audio_len]

\* three chunks or more, the last one shorter than the others, in a
\* temporary directory
C7_Witness ==
    /\ pc = "split_done"
    /\ split_result.status = "returned"
    /\ Len(split_result.paths) >= 3
    /\ audio_len % chunk_duration_ms # 0
    /\ output_dir = TempDir
    /\ split_result.paths[3].name = <<"call", "_chunk", "0", "0", "2", ".wav">>

-----------------------------------------------------------------------------
(* Properties of grade_call *)

OccursAt(text, sep, i) ==
    /\ i >= 1 /\ i + Len(sep) - 1 <= Len(text)
    /\ \A k \in 1..Len(sep) : text[i + k - 1] = sep[k]

Occurs(text, sep) == \E i \in 1..Len(text) : OccursAt(text, sep, i)

\* the first occurrence of sep at or after position from, 0 when none
FirstOccurrence(text, sep, from) ==
    IF \E i \in from..Len(text) : OccursAt(text, sep, i)
    THEN CHOOSE i \in from..Len(text) :
            /\ OccursAt(text, sep, i)
            /\ \A j \in from..(i - 1) : ~OccursAt(text, sep, j)
    ELSE 0

\* the text between the first opening fence and the next fence (the end of
\* the text when the block is not closed)
Interior(text, opening) ==
    LET b == FirstOccurrence(text, opening, 1) + Len(opening)
        j == FirstOccurrence(text, Fence, b)
        e == IF j = 0 THEN Len(text) ELSE j - 1
    IN [k \in 1..(e - b + 1) |-> text[b + k - 1]]

\* text is one JSON value between optional whitespace
IsJsonText(text) ==
    \E p \in 1..Len(text) :
        /\ text[p] \in DOMAIN JsonDocs
        /\ \A q \in 1..Len(text) : q # p => text[q] \in Whitespace

JsonValueOf(text) == JsonDocs[text[CHOOSE p \in 1..Len(text) : text[p] \in DOMAIN JsonDocs]]

\* the texts the recovery order selects: at most one
Candidates(text) ==
    IF IsJsonText(text) THEN <<text>>
    ELSE IF Occurs(text, JsonFence) THEN <<Interior(text, JsonFence)>>
    ELSE IF Occurs(text, Fence) THEN <<Interior(text, Fence)>>
    ELSE <<>>

\* C8: the grading object is recovered in a fixed order: the whole response
\* as JSON; else the interior of the first json-tagged fenced block when
\* there is one; else the interior of the first fenced block when there is
\* one; when none applies or the chosen interior does not parse, the call
\* ends as a failure, with no other fallback and no second provider call.
C8_RecoveryOrder ==
    /\ [](llm_calls <= 1)
    /\ [][ pc = "grade_parse" =>
             LET c == Candidates(response_text)
             IN /\ llm_calls' = 1
                /\ IF c = <<>> \/ ~IsJsonText(c[1])
                   THEN /\ pc' = "grade_done"
                        /\ ~grading_result'.ok
                        /\ result'.status = "failed"
                        /\ grade_outcome' = "returned"
                   ELSE /\ grading_result'.ok
                        /\ grading_result'.isdict = JsonValueOf(c[1]).isdict
                        /\ grading_result'.obj = JsonValueOf(c[1]).obj
         ]_vars

\* a response that is not JSON as a whole, with a plain fenced block before
\* the json-tagged one; the object of the json-tagged block was taken
C8_Witness ==
    /\ pc = "grade_done"
    /\ result.status = "success"
    /\ ~IsJsonText(response_text)
    /\ Occurs(response_text, JsonFence)
    /\ FirstOccurrence(response_text, Fence, 1) < FirstOccurrence(response_text, JsonFence, 1)
    /\ IsJsonText(Interior(response_text, Fence))
    /\ JsonValueOf(Interior(response_text, Fence)).obj # grading_result.obj
    /\ grading_result.obj = JsonValueOf(Interior(response_text, JsonFence)).obj

\* C9: whenever a JSON object is recovered, grade_call returns success with
\* grades, overall_score and summary copied from the object, the empty list,
\* 0 and the empty string standing in for a missing key; an empty grades
\* list is a success, whatever the number of requested criteria.
C9_PermissiveDefaults ==
    (pc = "grade_done" /\ grading_result.ok /\ grading_result.isdict) =>
        LET gr == grading_result.obj
        IN /\ grade_outcome = "returned"
           /\ result.status = "success"
           /\ result.grades = IF "grades" \in DOMAIN gr THEN gr.grades ELSE <<>>
           /\ result.overall_score = IF "overall_score" \in DOMAIN gr THEN gr.overall_score ELSE 0
           /\ result.summary = IF "summary" \in DOMAIN gr THEN gr.summary ELSE ""
           /\ "error" \notin DOMAIN result

\* an object without any of the three keys, two criteria requested
C9_Witness ==
    /\ pc = "grade_done"
    /\ grading_result.ok /\ grading_result.isdict
    /\ DOMAIN grading_result.obj = {}
    /\ Len(scorecard_items) = 2
    /\ result.status = "success"
    /\ result.grades = <<>> /\ result.overall_score = 0 /\ result.summary = ""

Blank(t) == \A i \in 1..Len(t) : t[i] \in Whitespace

\* C10: with an empty or whitespace-only transcript, or an empty scorecard
\* list, grade_call returns status "failed" with an error message; it does
\* not raise, call the LLM provider or write a grading file.
C10_EmptyInputFails ==
    (pc \in {"grade_start", "grade_llm", "grade_parse", "grade_save", "grade_done"}
        /\ (Blank(transcript) \/ scorecard_items = <<>>)) =>
        /\ pc \in {"grade_start", "grade_done"}
        /\ llm_calls = 0
        /\ grading_files = {}
        /\ grade_outcome # "raised"
        /\ pc = "grade_done" =>
              /\ grade_outcome = "returned"
              /\ result.status = "failed"
              /\ "error" \in DOMAIN result
              /\ result.error # ""

\* a whitespace-only transcript with criteria and an output directory
C10_Witness ==
    /\ pc = "grade_done"
    /\ transcript # <<>> /\ Blank(transcript)
    /\ scorecard_items # <<>>
    /\ grade_output_dir = "out"
    /\ result = [status |-> "failed", error |-> "Empty transcript"]

-----------------------------------------------------------------------------
(* Properties of the operations of SarvamEngine *)

\* a result dict with a status, and an error message when it failed
Structured(res) ==
    /\ "status" \in DOMAIN res
    /\ res.status \in {"success", "failed"}
    /\ res.status = "failed" => ("error" \in DOMAIN res /\ res.error # "")

FailedWithMessage(res) ==
    "status" \in DOMAIN res /\ res.status = "failed" /\ "error" \in DOMAIN res /\ res.error # ""

\* C11: every operation of SarvamEngine (transcribe_audio, analyze_call,
\* answer_question, grade_call) ends by returning a result whose status is
\* "success" or "failed"; when the provider call or another step raises, the
\* operation returns "failed" with an error message and never raises; no
\* provider method is called more than once in one invocation.
C11_StructuredOutcome ==
    /\ [](/\ grade_outcome # "raised" /\ text_outcome # "raised"
          /\ transcribe_outcome # "raised"
          /\ llm_calls <= 1 /\ chat_calls <= 1
          /\ \A m \in JobMethods : job_calls[m] <= 1
          /\ pc = "grade_done" => (grade_outcome = "returned" /\ Structured(result))
          /\ pc = "text_done" => (text_outcome = "returned" /\ Structured(text_result))
          /\ pc = "transcribe_done" =>
                /\ transcribe_outcome = "returned"
                /\ Structured(transcribe_result)
                /\ raised_at # "" => FailedWithMessage(transcribe_result))
    /\ [][ /\ (pc = "grade_llm" /\ pc' # "grade_parse") =>
                (pc' = "grade_done" /\ grade_outcome' = "returned"
                 /\ FailedWithMessage(result'))
           /\ (pc = "text_llm" /\ pc' # "text_write") =>
                (pc' = "text_done" /\ text_outcome' = "returned"
                 /\ FailedWithMessage(text_result'))
           /\ (pc \in JobMethods /\ pc' \notin JobMethods \cup {"transcribe_check"}) =>
                (pc' = "transcribe_done" /\ transcribe_outcome' = "returned"
                 /\ FailedWithMessage(transcribe_result'))
         ]_vars

\* the second invocation of transcribe_audio ended when download_outputs
\* raised, after every method of the job was called once
C11_Witness ==
    /\ pc = "transcribe_done"
    /\ invocations = 2
    /\ raised_at = "download_outputs"
    /\ \A m \in JobMethods : job_calls[m] = 1
    /\ transcribe_outcome = "returned"
    /\ transcribe_result = [status |-> "failed", error |-> "API Error"]

-----------------------------------------------------------------------------
(* Properties of transcribe_audio *)

\* s is the word "failed" in any mix of upper and lower case
IsFailedWord(s) ==
    /\ Len(s) = 6
    /\ s[1] \in {"f", "F"} /\ s[2] \in {"a", "A"} /\ s[3] \in {"i", "I"}
    /\ s[4] \in {"l", "L"} /\ s[5] \in {"e", "E"} /\ s[6] \in {"d", "D"}

ParsePositions == {"parse_start", "parse_collect", "parse_aggregate", "parse_done"}

\* C12: when the batch job finishes in state "failed", in any letter case,
\* transcribe_audio returns "failed" with an error, download_outputs and
\* _parse_transcriptions do not run and no conversation or timing file is
\* written; "success" is returned only after the download and the parsing
\* were completed and the result carries conversation_file, timing_file and
\* raw_output_dir.
C12_FailedJobStopsPipeline ==
    /\ [][ (pc = "transcribe_check" /\ IsFailedWord(job_state)) =>
             /\ pc' = "transcribe_done"
             /\ transcribe_outcome' = "returned"
             /\ FailedWithMessage(transcribe_result')
             /\ job_calls'["download_outputs"] = 0
             /\ UNCHANGED <<raw_dir, conversation_file, timing_file, disk, files, fidx,
                            all_entries, conversation_lines, speaker_times>>
         ]_vars
    /\ []((pc = "transcribe_done" /\ IsFailedWord(job_state)) =>
             /\ transcribe_result.status = "failed"
             /\ job_calls["download_outputs"] = 0
             /\ files = <<>> /\ fidx = 0)
    /\ []((transcribe_outcome = "returned" /\ transcribe_result.status = "success") =>
             /\ {"conversation_file", "timing_file", "raw_output_dir"}
                   \subseteq DOMAIN transcribe_result
             /\ ~IsFailedWord(job_state)
             /\ job_calls["download_outputs"] = 1
             /\ \A n \in DOMAIN downloaded :
                   n \in DOMAIN raw_dir /\ raw_dir[n] = downloaded[n]
             /\ files = Sorted(DOMAIN raw_dir)
             /\ fidx > Len(files) /\ eidx > Len(all_entries)
             /\ conversation_file.written /\ timing_file.written
             /\ conversation_file.content = ConversationText(conversation_lines)
             /\ timing_file.content = speaker_times)
    /\ [][ (transcribe_outcome = "running" /\ transcribe_outcome' = "returned"
            /\ transcribe_result'.status = "success") => pc = "parse_done" ]_vars

\* a job that ended as "FAILED" in a directory that holds the artifacts of
\* an earlier successful invocation: they are still there
C12_Witness ==
    /\ pc = "transcribe_done"
    /\ invocations = 2
    /\ job_state = <<"F", "A", "I", "L", "E", "D">>
    /\ transcribe_result.status = "failed"
    /\ job_calls["wait_until_complete"] = 1
    /\ job_calls["download_outputs"] = 0
    /\ conversation_file.written
    /\ conversation_file = disk[transcribe_dir].conversation

-----------------------------------------------------------------------------
(* Properties of grade_call: failures *)

\* no JSON value can be recovered from the response
Unrecoverable(text) ==
    LET c == Candidates(text) IN c = <<>> \/ ~IsJsonText(c[1])

\* C13 (as stated): when no JSON can be recovered from the LLM response,
\* the failure result holds the raw response text.  The error message is a
\* fixed text or the message of the JSON decoder, never the response.
C13_RawTextPreserved ==
    [][ (pc = "grade_parse" /\ response_text # <<>> /\ Unrecoverable(response_text)) =>
          \E k \in DOMAIN result' \ {"status", "error"} : result'[k] = response_text
      ]_vars

\* C13 (amended): when no JSON can be recovered from the LLM response,
\* grade_call returns a result of exactly two keys, status "failed" and the
\* message of the exception: "Could not parse grading response as JSON"
\* when the response has no fence, the message of the JSON decoder
\* otherwise; the response text is not part of the result and no grading
\* file is written.
C13_FailureHasOnlyMessage ==
    [][ (pc = "grade_parse" /\ Unrecoverable(response_text)) =>
          /\ pc' = "grade_done"
          /\ grade_outcome' = "returned"
          /\ DOMAIN result' = {"status", "error"}
          /\ result'.status = "failed"
          /\ result'.error = IF Candidates(response_text) = <<>>
                             THEN "Could not parse grading response as JSON"
                             ELSE "JSONDecodeError"
          /\ grading_files' = grading_files
      ]_vars

\* a response with a fenced block that is not JSON
C13_Witness ==
    /\ pc = "grade_done"
    /\ response_text # <<>>
    /\ Occurs(response_text, Fence)
    /\ Unrecoverable(response_text)
    /\ result = [status |-> "failed", error |-> "JSONDecodeError"]
    /\ grading_files = {}

\* C14 (as stated): grade_call never returns "success" with an empty grade
\* list.
C14_SuccessHasGrades ==
    (pc = "grade_done" /\ result.status = "success") => result.grades # <<>>

\* C14 (amended): the outcome of every grading operation is a success or a
\* failure; it is a success exactly when a JSON object was recovered, and
\* the grade list of a success is the list of the object, which is empty
\* when the object has no grades or an empty list of them.
C14_SuccessOrFailure ==
    pc = "grade_done" =>
        /\ result.status \in {"success", "failed"}
        /\ result.status = "success" <=> (grading_result.ok /\ grading_result.isdict)
        /\ result.status = "success" =>
              /\ "grades" \in DOMAIN result
              /\ (result.grades = <<>>) <=>
                    ("grades" \notin DOMAIN grading_result.obj
                        \/ grading_result.obj.grades = <<>>)
        /\ result.status = "failed" => "grades" \notin DOMAIN result

\* an object whose grades list is empty, one criterion requested
C14_Witness ==
    /\ pc = "grade_done"
    /\ Len(scorecard_items) = 1
    /\ grading_result.ok /\ grading_result.isdict
    /\ "grades" \in DOMAIN grading_result.obj
    /\ grading_result.obj.grades = <<>>
    /\ result.status = "success"
    /\ result.grades = <<>>

-----------------------------------------------------------------------------
(* Properties of transcribe_audio: repeated invocations *)

\* C15: the conversation and timing artifacts an invocation of
\* transcribe_audio reports are determined only by the documents that
\* invocation downloaded, also when an earlier invocation used the same
\* output_dir: the documents read are the downloaded ones.
C15_InvocationsIndependent ==
    (pc = "transcribe_done" /\ transcribe_result.status = "success") =>
        /\ DOMAIN contrib = DOMAIN downloaded
        /\ \A n \in DOMAIN contrib : contrib[n] = DocEntries(downloaded[n])

-----------------------------------------------------------------------------
(* Properties of the call records of database.py *)

\* the ids save_call returned and delete_call did not remove
Live == DOMAIN saved \ deleted

\* the record a call returned, when it returned one
ReturnedRecord == db_ret.val.some

\* C16: get_call_details(c) of an id c that a successful save_call returned
\* and that was not deleted returns a record whose filename, upload_time,
\* transcript and analysis are the saved values and whose grades is the
\* saved dictionary, nested objects and lists included; of an id that was
\* never returned, or was deleted, it returns None.
C16_DetailsRoundTrip ==
    db_op.name = "get_call_details" =>
        LET c == db_op.args
        IN IF c \in Live
           THEN /\ db_ret.kind = "returned"
                /\ ~db_ret.val.none
                /\ ReturnedRecord.call_id = c
                /\ ReturnedRecord.filename = saved[c].filename
                /\ ReturnedRecord.upload_time = saved[c].upload_time
                /\ ReturnedRecord.transcript = saved[c].transcript
                /\ ReturnedRecord.analysis = saved[c].analysis
                /\ ReturnedRecord.grades = saved[c].grades
           ELSE db_ret = Returned(None)

\* the details of the second record, whose grades hold a nested object with
\* lists and a string with a quote, after the first record was deleted
C16_Witness ==
    /\ db_op = [name |-> "get_call_details", args |-> 2]
    /\ deleted = {1}
    /\ ~db_ret.val.none
    /\ ReturnedRecord.grades = saved[2].grades
    /\ \E i \in 1..Len(saved[2].grades.val) :
          /\ saved[2].grades.val[i][1] = <<"nested">>
          /\ saved[2].grades.val[i][2].kind = "obj"
    /\ calls[2].grades # saved[2].grades

\* C17: no two call records share a filename; save_call with a filename
\* that is stored raises an integrity error and leaves the store as it was:
\* the same records with the same upload_time, transcript, analysis and
\* grades.
C17_UniqueFilename ==
    /\ [](\A i, j \in DOMAIN calls : calls[i].filename = calls[j].filename => i = j)
    /\ [][ db_op'.name = "save_call" =>
             IF \E i \in DOMAIN calls : calls[i].filename = db_op'.args.filename
             THEN /\ db_ret' = Raised("IntegrityError")
                  /\ calls' = calls
                  /\ Cardinality(DOMAIN calls') = Cardinality(DOMAIN calls)
             ELSE /\ db_ret'.kind = "returned"
                  /\ Cardinality(DOMAIN calls') = Cardinality(DOMAIN calls) + 1
         ]_vars

\* a rejected save_call whose transcript differs from the stored one
C17_Witness ==
    /\ db_op.name = "save_call"
    /\ db_ret = Raised("IntegrityError")
    /\ \E i \in DOMAIN calls :
          /\ calls[i].filename = db_op.args.filename
          /\ calls[i].transcript # db_op.args.transcript
          /\ calls[i].transcript = saved[i].transcript

\* C18: delete_call(c) returns True exactly when a record with id c is
\* stored; then that record is gone, get_call_details(c) returns None and
\* every other record is unchanged; when it returns False the store is
\* unchanged.
C18_DeleteFrame ==
    /\ [][ db_op'.name = "delete_call" =>
             LET c == db_op'.args
             IN /\ db_ret'.kind = "returned"
                /\ db_ret'.val = (c \in DOMAIN calls)
                /\ c \notin DOMAIN calls'
                /\ DOMAIN calls' = DOMAIN calls \ {c}
                /\ \A k \in DOMAIN calls' : calls'[k] = calls[k]
                /\ c \notin DOMAIN calls => calls' = calls
         ]_vars
    /\ []((db_op.name = "get_call_details" /\ db_op.args \in deleted) =>
             db_ret = Returned(None))

\* the first of two records was deleted; the second is as it was saved
C18_Witness ==
    /\ db_op = [name |-> "delete_call", args |-> 1]
    /\ db_ret = Returned(TRUE)
    /\ DOMAIN calls = {2}
    /\ calls[2].transcript = saved[2].transcript
    /\ 1 \in deleted

\* C19: on a store that was empty at the start, get_call_count() is the
\* number of successful save_call calls minus the number of delete_call
\* calls that returned True, and get_all_calls() returns that many rows, one
\* for each stored record.
C19_CountMatchesHistory ==
    /\ db_op.name = "get_call_count" =>
          db_ret = Returned(Cardinality(DOMAIN saved) - Cardinality(deleted))
    /\ db_op.name = "get_all_calls" =>
          LET rows == db_ret.val
          IN /\ db_ret.kind = "returned"
             /\ Len(rows) = Cardinality(DOMAIN saved) - Cardinality(deleted)
             /\ { rows[i].call_id : i \in 1..Len(rows) } = Live
             /\ \A i, j \in 1..Len(rows) : rows[i].call_id = rows[j].call_id => i = j
             /\ \A i \in 1..Len(rows) :
                   /\ rows[i].filename = saved[rows[i].call_id].filename
                   /\ rows[i].upload_time = saved[rows[i].call_id].upload_time

\* three saves and one delete: the count is 2, not the greatest id
C19_Witness ==
    /\ db_op.name = "get_call_count"
    /\ Cardinality(DOMAIN saved) = 3
    /\ Cardinality(deleted) = 1
    /\ db_ret = Returned(2)

-----------------------------------------------------------------------------
(* Properties of the scorecards of database.py *)

SavedVersions == { scorecard_log[i].version : i \in 1..Len(scorecard_log) }

\* the criteria of the most recent save_scorecard for version v
LastSaved(v) ==
    LET last == CHOOSE i \in 1..Len(scorecard_log) :
                    /\ scorecard_log[i].version = v
                    /\ \A j \in (i + 1)..Len(scorecard_log) : scorecard_log[j].version # v
    IN scorecard_log[last].criteria

\* C20: get_latest_scorecard() returns the scorecard with the greatest
\* version saved so far, None when none was saved; get_scorecard(v) returns
\* the criteria of the most recent save_scorecard for v; saving a version
\* that exists replaces its criteria and keeps the number of scorecards.
C20_ScorecardVersions ==
    /\ [](db_op.name = "get_latest_scorecard" =>
             IF scorecard_log = <<>> THEN db_ret = Returned(None)
             ELSE /\ db_ret.kind = "returned"
                  /\ ~db_ret.val.none
                  /\ ReturnedRecord.version \in SavedVersions
                  /\ \A v \in SavedVersions : v <= ReturnedRecord.version
                  /\ ReturnedRecord.criteria = LastSaved(ReturnedRecord.version))
    /\ [](db_op.name = "get_scorecard" =>
             IF db_op.args \notin SavedVersions THEN db_ret = Returned(None)
             ELSE /\ db_ret.kind = "returned"
                  /\ ~db_ret.val.none
                  /\ ReturnedRecord.version = db_op.args
                  /\ ReturnedRecord.criteria = LastSaved(db_op.args))
    /\ [](Cardinality(DOMAIN scorecards) = Cardinality(SavedVersions))
    /\ [][ (db_op'.name = "save_scorecard" /\ db_op'.args.version \in DOMAIN scorecards) =>
             /\ DOMAIN scorecards' = DOMAIN scorecards
             /\ scorecards'[db_op'.args.version].criteria = Dumps(db_op'.args.criteria)
             /\ \A v \in DOMAIN scorecards \ {db_op'.args.version} :
                   scorecards'[v] = scorecards[v]
         ]_vars

\* version 1 was saved twice with different criteria, version 2 in between;
\* get_scorecard(1) returns the criteria of the second save
C20_Witness ==
    /\ db_op = [name |-> "get_scorecard", args |-> 1]
    /\ Len(scorecard_log) = 3
    /\ scorecard_log[1].version = 1 /\ scorecard_log[2].version = 2
    /\ scorecard_log[3].version = 1
    /\ scorecard_log[1].criteria # scorecard_log[3].criteria
    /\ ~db_ret.val.none
    /\ ReturnedRecord.criteria = scorecard_log[3].criteria

-----------------------------------------------------------------------------
(* Properties of the aggregation: order, absent fields, artifacts *)

\* speaker_times as the "for entry" loop builds it from a conversation
RECURSIVE TimingOf(_)
TimingOf(es) ==
    IF es = <<>> THEN <<>>
    ELSE LET acc == TimingOf(SubSeq(es, 1, Len(es) - 1))
             e == es[Len(es)]
         IN DictSet(acc, EntrySpeaker(e),
                    FloatRound(DictGet(acc, EntrySpeaker(e), 0) + EntryDuration(e)))

\* C21: the timing map does not depend on the order of the entries: for
\* every permutation of the conversation the aggregation gives every
\* speaker the same total (the keys may come in another order), while the
\* serialized transcript has the lines of the entries in entry order.
C21_OrderIndependentTotals ==
    pc = "parse_done" =>
        /\ timing_file.content = TimingOf(all_entries)
        /\ \A p \in Permutations(1..Len(all_entries)) :
              LET permuted == TimingOf([i \in 1..Len(all_entries) |-> all_entries[p[i]]])
              IN /\ { permuted[i][1] : i \in 1..Len(permuted) }
                      = { speaker_times[i][1] : i \in 1..Len(speaker_times) }
                 /\ \A i \in 1..Len(permuted) :
                       permuted[i][2] = DictGet(timing_file.content, permuted[i][1], 0)
        /\ conversation_file.content =
              ConversationText([i \in 1..Len(all_entries) |-> RenderLine(all_entries[i])])

\* the document of a run over one *.json file
TheDocument == raw_dir[<<"a">> \o DotJson]

\* C22: absent fields never stop the normalization: whichever of
\* diarized_transcript, entries, transcript, speaker_id, start_time_seconds
\* and end_time_seconds are absent, every step before the end has a next
\* step, both artifacts are written, a document without diarized entries and
\* without transcript contributes no entry, and an entry is rendered and
\* timed with speaker "UNKNOWN", text "", start 0 and end 0 in place of what
\* it lacks.
C22_AbsentFieldsDefault ==
    /\ [](pc \in {"parse_start", "parse_collect", "parse_aggregate"} => ENABLED NextParse)
    /\ [](pc = "parse_done" =>
            /\ conversation_file.written /\ timing_file.written
            /\ ("transcript" \notin DOMAIN TheDocument
                  /\ ("diarized_transcript" \notin DOMAIN TheDocument
                       \/ "entries" \notin DOMAIN TheDocument["diarized_transcript"]))
                  => all_entries = <<>>
            /\ Len(conversation_lines) = Len(all_entries)
            /\ \A i \in 1..Len(all_entries) :
                  conversation_lines[i] =
                      <<SpeakerOf(all_entries[i]), ":", " ">>
                         \o Strip(IF "transcript" \in DOMAIN all_entries[i]
                                  THEN all_entries[i]["transcript"] ELSE <<>>))
    /\ [][(pc = "parse_aggregate" /\ eidx' = eidx + 1) =>
            LET e == all_entries[eidx]
            IN /\ DictHas(speaker_times', SpeakerOf(e))
               /\ DictGet(speaker_times', SpeakerOf(e), 0) =
                     FloatRound(DictGet(speaker_times, SpeakerOf(e), 0) + ClampedDuration(e))
         ]_vars

\* an entry without any field was rendered and timed
C22_Witness ==
    /\ pc = "parse_done"
    /\ \E i \in 1..Len(all_entries) :
          /\ DOMAIN all_entries[i] = {}
          /\ conversation_lines[i] = <<"UNKNOWN", ":", " ">>
    /\ timing_file.content = << <<"UNKNOWN", 0>> >>

\* the number of newline characters of a text
NewlinesOf(text) == Cardinality({ i \in 1..Len(text) : text[i] = "\n" })

\* C23: _conversation.txt holds exactly one newline-terminated line per
\* entry of the conversation, also for the empty conversation, whose
\* artifact is the empty text.
C23_OneLinePerEntry ==
    pc = "parse_done" =>
        LET text == conversation_file.content
        IN /\ conversation_file.written
           /\ NewlinesOf(text) = Len(all_entries)
           /\ text # <<>> => text[Len(text)] = "\n"
           /\ all_entries = <<>> => text = <<>>

-----------------------------------------------------------------------------
(* Properties of the chunk files *)

\* the characters of a file name
NameChars(name) ==
    Concat([i \in 1..Len(name) |->
              CASE name[i] = "call" -> <<"c", "a", "l", "l">>
                [] name[i] = "_chunk" -> <<"_", "c", "h", "u", "n", "k">>
                [] name[i] = ".mp3" -> <<".", "m", "p", "3">>
                [] name[i] = ".wav" -> <<".", "w", "a", "v">>
                [] OTHER -> <<name[i]>>])

\* C24: the names of the chunks split_audio makes from one file, sorted in
\* ascending lexical order, come in their sequence order 0, 1, ..., n-1,
\* for every n: each name is lexically smaller than the name of the next chunk.
C24_ChunkNamesSorted ==
    (pc = "split_done" /\ split_result.status = "returned") =>
        \A i \in 1..(Len(split_result.paths) - 1) :
            StrLess(NameChars(split_result.paths[i].name),
                    NameChars(split_result.paths[i + 1].name))

\* C25: when an invocation of transcribe_audio has returned, with success or
\* with failure, none of the chunk files split_audio exported for it exists
\* any more, and every source recording still exists.
C25_ChunksDiscarded ==
    pc = "transcribe_done" =>
        /\ \A q \in DOMAIN fs_files : q.dir # TempDir
        /\ \A i \in 1..Len(audio_paths) : audio_paths[i].path \in DOMAIN fs_files

-----------------------------------------------------------------------------
(* Properties of CallAnalytics.grade_call *)

\* C26: for a response without a json-tagged fence that holds a fenced
\* block, CallAnalytics.grade_call decodes the interior of that block, the
\* text between the first and the second fence, and returns the decoded
\* object.
C26_GenericFenceInterior ==
    (/\ pc = "analytics_done"
     /\ response_text # <<>>
     /\ ~Occurs(response_text, JsonFence)
     /\ Occurs(response_text, Fence)
     /\ IsJsonText(Interior(response_text, Fence)))
        => /\ result # None
           /\ result.some.isdict = JsonValueOf(Interior(response_text, Fence)).isdict
           /\ result.some.obj = JsonValueOf(Interior(response_text, Fence)).obj

-----------------------------------------------------------------------------
(* Properties of the call identifiers *)

\* C27: every successful save_call returns a positive call_id that is
\* greater than every call_id returned before, so no id is used twice, also
\* after the record that held it, even the newest one, was deleted.
C27_IdsIncrease ==
    [][ (db_op'.name = "save_call" /\ db_ret'.kind = "returned") =>
            /\ db_ret'.val > 0
            /\ db_ret'.val \notin DOMAIN saved
            /\ \A k \in DOMAIN saved \cup deleted : db_ret'.val > k
            /\ DOMAIN saved' = DOMAIN saved \cup {db_ret'.val}
      ]_vars

\* a save_call returned an id after the newest record was deleted
C27_Witness ==
    /\ db_op.name = "save_call" /\ db_ret.kind = "returned"
    /\ db_ret.val - 1 \in deleted
    /\ db_ret.val > 1

-----------------------------------------------------------------------------
(* Properties of transcribe_audio: the order of the steps *)

\* C28: every input file is split before a provider job is created; when
\* the decoding of any input file fails the invocation returns "failed"
\* with no job created and nothing uploaded; otherwise the steps create_job,
\* upload_files, start, wait_until_complete, download_outputs and the
\* parsing happen in this order only, each at most once in an invocation.
C28_SplitThenJobSteps ==
    /\ [](job_calls["create_job"] > 0 => path_idx > Len(audio_paths))
    /\ [](raised_at = "split_audio" =>
            /\ \A m \in JobMethods : job_calls[m] = 0
            /\ pc = "transcribe_done"
            /\ transcribe_result.status = "failed")
    /\ [][ (pc = "split_done" /\ split_result.status = "raised") =>
             (raised_at' = "split_audio" /\ transcribe_outcome' = "returned") ]_vars
    /\ [](\A m \in JobMethods : job_calls[m] <= 1)
    /\ [](/\ job_calls["upload_files"] <= job_calls["create_job"]
          /\ job_calls["start"] <= job_calls["upload_files"]
          /\ job_calls["wait_until_complete"] <= job_calls["start"]
          /\ job_calls["download_outputs"] <= job_calls["wait_until_complete"])
    /\ []((transcribe_outcome = "running" /\ pc \in ParsePositions) =>
            job_calls["download_outputs"] = 1)
    /\ [][ (transcribe_outcome = "running" /\ pc' = "parse_start")
             => pc = "transcribe_check" ]_vars
    /\ [][ \A m \in JobMethods :
             job_calls'[m] > job_calls[m] =>
                 /\ raised_at = "" /\ transcribe_outcome = "running"
                 /\ \A n \in JobMethods \ {m} : job_calls'[n] = job_calls[n] ]_vars

\* the second of two recordings could not be decoded after the first, a long
\* one, was split: no job method was called
C28_Witness ==
    /\ pc = "transcribe_done"
    /\ raised_at = "split_audio"
    /\ Len(audio_paths) = 2 /\ path_idx = 2
    /\ Len(all_paths) = 3
    /\ \A m \in JobMethods : job_calls[m] = 0
    /\ transcribe_result.status = "failed"

-----------------------------------------------------------------------------
(* Properties of the process handler of app.py *)

\* a run of the process handler that did something new
ProcessRun == app_log' # app_log \/ db_op' # db_op

\* the record the run stored
StoredRecord == calls'[db_ret'.val]

\* C29: in a run of the process handler, save_call is invoked if and only
\* if transcription returned "success"; a failed analysis or a failed
\* grading does not prevent the save, the record then being stored with the
\* empty analysis text, respectively with the empty grades object "{}";
\* and grade_call is invoked only when the loaded criteria list is not empty
C29_SaveIffTranscribed ==
    [][ProcessRun =>
          /\ (app_log'.save # "none") <=> (app_log'.transcription = "success")
          /\ app_log'.save # "none" =>
                /\ db_op'.name = "save_call"
                /\ db_op'.args.filename = app_log'.audio_file
          /\ app_log'.save = "returned" /\ app_log'.analysis = "failed" =>
                StoredRecord.analysis = <<>>
          /\ app_log'.save = "returned" /\ app_log'.grading = "failed" =>
                StoredRecord.grades = <<"{", "}">>
          /\ app_log'.grading # "none" => scorecard_criteria # <<>>
          /\ app_log'.transcription = "success" /\ scorecard_criteria # <<>> =>
                app_log'.grading # "none"]_vars

\* a call was saved although its analysis and its grading failed, and
\* another although it was not graded at all
C29_Witness ==
    /\ pc = "app"
    /\ app_log.save = "returned"
    /\ app_log.analysis = "failed" /\ app_log.grading = "failed"
    /\ \E id \in DOMAIN calls :
          /\ calls[id].filename = app_log.audio_file
          /\ calls[id].analysis = <<>> /\ calls[id].grades = <<"{", "}">>
    /\ \E id \in DOMAIN calls : calls[id].grades # <<"{", "}">>

\* C30: processed_call changes only in a run whose save_call returned, and
\* then holds the call_id returned together with the filename, transcript,
\* analysis and grades stored under that id; when transcription fails or
\* the run raises, as save_call does for a filename already processed,
\* processed_call keeps its value and no record is added
C30_ProcessedCallAfterSave ==
    [][/\ processed_call' # processed_call =>
             /\ db_op'.name = "save_call" /\ db_ret'.kind = "returned"
             /\ db_ret'.val \notin DOMAIN calls
             /\ ~processed_call'.none
             /\ processed_call'.some.call_id = db_ret'.val
             /\ processed_call'.some.filename = StoredRecord.filename
             /\ processed_call'.some.transcript = StoredRecord.transcript
             /\ processed_call'.some.analysis = StoredRecord.analysis
             /\ Loads(StoredRecord.grades).ok
             /\ processed_call'.some.grades = Loads(StoredRecord.grades).val
       /\ ProcessRun /\ app_log'.save = "returned" => processed_call' # processed_call
       /\ ProcessRun /\ app_log'.save # "returned" =>
             /\ processed_call' = processed_call
             /\ calls' = calls]_vars

\* a call is shown, and the run after it was rejected for its filename
C30_Witness ==
    /\ pc = "app"
    /\ app_log.save = "raised"
    /\ db_ret = Raised("IntegrityError")
    /\ ~processed_call.none
    /\ processed_call.some.call_id \in DOMAIN calls
    /\ processed_call.some.grades # JObj(<<>>)
    /\ Cardinality(DOMAIN calls) = 2

====
